---- MODULE Spec2Model ----
(***************************************************************************)
(* Scheduling engine of the flashcard application (lib/sm2.ts): the SM-2   *)
(* review state machine with Anki-style learning steps, and the wrapper    *)
(* reviewCard with its lapse bookkeeping.                                  *)
(*                                                                         *)
(* Number representation.  The source computes with IEEE doubles.  Here    *)
(*   - an interval is an integer number of MINUTES (1 day = 1440), so the  *)
(*     source's 1/1440 is 1, 10/1440 is 10 and 4 (days) is 4 * 1440;       *)
(*   - an ease factor is an integer number of HUNDREDTHS (2.5 is 250,      *)
(*     the floor 1.3 is 130, the steps 0.2, 0.1 and 0.14 are 20, 10, 14);  *)
(*   - an instant is an integer number of minutes since the card's         *)
(*     creation.                                                           *)
(* Every constant of the source is a whole number of these units, so the   *)
(* sums are exact.  The products under Math.round are not: a double such   *)
(* as 2.3 sits slightly off its decimal value, and a product whose decimal *)
(* value is exactly k + 1/2 (25 * 2.3 = 57.5) rounds to k or to k + 1      *)
(* depending on the accumulated representation error.  The operators that  *)
(* round such a product therefore take the direction of an exact tie as an *)
(* input, tieUp, which the actions choose freely; off a tie the result is  *)
(* the nearest integer.                                                    *)
(*                                                                         *)
(* The store (stores/useStore.ts) is modelled beside the single card: its  *)
(* decks, cards, exams and weak-point recommendations are sequences in     *)
(* array order.  A deck name and a deck pattern are sequences of           *)
(* characters, an exam weight is an integer number of TENTHS, an exam      *)
(* date is the instant of its UTC midnight.  The daily quota is computed   *)
(* on exact fractions; the source's double product can land just above an  *)
(* exact whole number (10 * (0.5 / 0.8333...) * 2 is 12.000000000000002),  *)
(* so Math.ceil of an exact positive whole number takes its direction as   *)
(* an input, ceilUp, like tieUp.                                           *)
(***************************************************************************)
EXTENDS Integers, Sequences, FiniteSets, TLC

VARIABLES card, now, args, outcome, ret,
          decks, cards, exams, weakPointRecommendations, queryResult, ceilsUp,
          remote, sync

vars == <<card, now, args, outcome, ret,
          decks, cards, exams, weakPointRecommendations, queryResult, ceilsUp,
          remote, sync>>

\* The persisted store (useStore.ts), the value of the last query, and the
\* exams whose quota product the doubles put just above a whole number.
storeVars == <<decks, cards, exams, weakPointRecommendations, queryResult, ceilsUp>>

\* The rows of the remote tables (Supabase) and the login sync of App.tsx:
\* its position, the decks, cards and exams its closure captured, and the
\* data fetchAllFromRemote returned.
syncVars == <<remote, sync>>

(***************************************************************************)
(* Program constants                                                       *)
(***************************************************************************)
MINUTES_PER_DAY == 1440

\* JavaScript's undefined, for the optional numeric fields
\* (lapseInterval, correctRate).
Undefined == -1

(***************************************************************************)
(* Bounds of the model                                                     *)
(***************************************************************************)
\* A card is reviewed only while its interval is at most this many days,
MaxIntervalDays == 10
\* its repetition count at most this,
MaxRepetition == 3
\* and its ease factor at most this many hundredths.
MaxEase == 260
\* The clock runs over this many days.
MaxClockDays == 2
\* Arguments of the direct calls of calculateNextReview.
MaxArgRepetition == 3
MaxArgDays == 12
MaxArgEase == 280

\* Stores that are queried and answered, and raw data given to the quota.
MaxQueryCards == 3

MaxStoreCards == 2

MaxStoreExams == 2

MaxQuotaExams == 2

\* Exams of a store whose study queue is built.
MaxQueueExams == 2

\* Cards in the largest deck of such a store.
MaxQueueCards == 7

\* Cards of the store that is synchronised.
MaxSyncCards == 1

\* Cards created in a store.
MaxCreatedCards == 2

(***************************************************************************)
(* Arithmetic helpers                                                      *)
(***************************************************************************)
\* Math.max on two numbers.
MathMax(a, b) == IF a >= b THEN a ELSE b

\* Math.round of the non-negative rational num / den: the nearest integer;
\* an exact tie k + 1/2 goes up when tieUp (Math.round on the exact value)
\* and down otherwise (the double fell just short of the tie).
MathRound(num, den, tieUp) ==
    IF (2 * num) % (2 * den) = den
    THEN (IF tieUp THEN (num \div den) + 1 ELSE num \div den)
    ELSE (2 * num + den) \div (2 * den)

(***************************************************************************)
(* calculateNextReview                                                     *)
(***************************************************************************)
\* Mutant: the Again test written as an enumeration of the ratings 0 and 1.
isAgain_enumerated(quality) == quality = 0 \/ quality = 1

\* if (quality < 2): the Again test, on whatever number is passed.
isAgain(quality) == quality < 2

\* Mutant: the ease factor is lowered without the 1.3 floor.
againResult_noFloor(easeFactor) ==
    [interval |-> 1, repetition |-> 0, easeFactor |-> easeFactor - 20]

\* Mutant: Again sends the card to the 10-minute step.
againResult_tenMinutes(easeFactor) ==
    [interval |-> 10, repetition |-> 0, easeFactor |-> MathMax(130, easeFactor - 20)]

\* Again (quality 0-1): 1 minute, reset to step 0.
againResult(easeFactor) ==
    [interval |-> 1, repetition |-> 0, easeFactor |-> MathMax(130, easeFactor - 20)]

\* Mutant: 10 / MINUTES_PER_DAY taken as an integer division.
hardFailResult_integerDivision(easeFactor) ==
    [interval |-> 10 \div MINUTES_PER_DAY, repetition |-> 0,
     easeFactor |-> MathMax(130, easeFactor - 10)]

\* Mutant: Hard-fail lowers the ease factor as much as Again does.
hardFailResult_againPenalty(easeFactor) ==
    [interval |-> 10, repetition |-> 0, easeFactor |-> MathMax(130, easeFactor - 20)]

\* Hard-fail (quality 2): 10 minutes, reset to step 1.
hardFailResult(easeFactor) ==
    [interval |-> 10, repetition |-> 0, easeFactor |-> MathMax(130, easeFactor - 10)]

\* Mutant: 0.2 written for 0.02 in the adjustment.
newEaseFactor_wrongCoefficient(quality, easeFactor) ==
    MathMax(130, easeFactor + (10 - (5 - quality) * (8 + (5 - quality) * 20)))

\* const newEaseFactor = Math.max(1.3, easeFactor + (0.1 - (5-q)*(0.08 + (5-q)*0.02)))
newEaseFactor(quality, easeFactor) ==
    MathMax(130, easeFactor + (10 - (5 - quality) * (8 + (5 - quality) * 2)))

\* const isLearning = repetition === 0 || interval < 1
isLearning(repetition, interval) ==
    repetition = 0 \/ interval < MINUTES_PER_DAY

\* Mutant: the step-0 test includes the 5-minute boundary.
isStep0_inclusive(repetition, interval) ==
    isLearning(repetition, interval) /\ interval <= 5

\* const isStep0 = isLearning && interval < 5 / MINUTES_PER_DAY
isStep0(repetition, interval) ==
    isLearning(repetition, interval) /\ interval < 5

\* Mutant: Good at step 0 graduates at once, skipping step 1.
step0Result_goodGraduates(quality) ==
    IF quality = 3 THEN [interval |-> 1, repetition |-> 0]
    ELSE IF quality = 5 THEN [interval |-> 4 * MINUTES_PER_DAY, repetition |-> 1]
    ELSE [interval |-> MINUTES_PER_DAY, repetition |-> 1]

\* Mutant: Hard at step 0 advances to step 1 as Good does.
step0Result_hardAdvances(quality) ==
    IF quality = 5 THEN [interval |-> 4 * MINUTES_PER_DAY, repetition |-> 1]
    ELSE [interval |-> 10, repetition |-> 0]

\* Step 0 (1min): Hard repeats it, Easy graduates to 4 days, Good advances
\* to step 1 (10min).
step0Result(quality) ==
    IF quality = 3 THEN [interval |-> 1, repetition |-> 0]
    ELSE IF quality = 5 THEN [interval |-> 4 * MINUTES_PER_DAY, repetition |-> 1]
    ELSE [interval |-> 10, repetition |-> 0]

\* Mutant: Hard at step 1 sends the card back to the 1-minute step.
step1Result_hardRestarts(quality) ==
    IF quality = 3 THEN [interval |-> 1, repetition |-> 0]
    ELSE IF quality = 5 THEN [interval |-> 4 * MINUTES_PER_DAY, repetition |-> 1]
    ELSE [interval |-> MINUTES_PER_DAY, repetition |-> 1]

\* Mutant: Good at step 1 sets the 1-day interval but leaves repetition 0.
step1Result_goodKeepsLearning(quality) ==
    IF quality = 3 THEN [interval |-> 10, repetition |-> 0]
    ELSE IF quality = 5 THEN [interval |-> 4 * MINUTES_PER_DAY, repetition |-> 1]
    ELSE [interval |-> MINUTES_PER_DAY, repetition |-> 0]

\* Step 1 (10min): Hard repeats it, Easy graduates to 4 days, Good
\* graduates to 1 day.
step1Result(quality) ==
    IF quality = 3 THEN [interval |-> 10, repetition |-> 0]
    ELSE IF quality = 5 THEN [interval |-> 4 * MINUTES_PER_DAY, repetition |-> 1]
    ELSE [interval |-> MINUTES_PER_DAY, repetition |-> 1]

\* Mutant: the classic SM-2 second interval, 6 days whatever the rating.
youngInterval_sixDays(quality, interval, ef, tieUp) == 6 * MINUTES_PER_DAY

\* First review after graduation (repetition === 1): in days,
\*   Hard max(1, interval), Easy max(interval + 1, round(interval * ef * 3)),
\*   Good max(4, round(interval * ef)).
\* interval (minutes) * ef (hundredths) is interval_days * ef * 144000.
youngInterval(quality, interval, ef, tieUp) ==
    IF quality = 3 THEN MathMax(MINUTES_PER_DAY, interval)
    ELSE IF quality = 5
    THEN MathMax(interval + MINUTES_PER_DAY,
                 MINUTES_PER_DAY * MathRound(interval * ef * 3, MINUTES_PER_DAY * 100, tieUp))
    ELSE MathMax(4 * MINUTES_PER_DAY,
                 MINUTES_PER_DAY * MathRound(interval * ef, MINUTES_PER_DAY * 100, tieUp))

\* Mutant: the classic SM-2 growth, round(interval * ef) for every rating,
\* with no easy bonus and no floor.
matureInterval_classic(quality, interval, ef, tieUp) ==
    MINUTES_PER_DAY * MathRound(interval * ef, MINUTES_PER_DAY * 100, tieUp)

\* Mutant: the growth alone, round(interval * ef) - interval, is returned
\* without the interval it is added to.
matureInterval_growthOnly(quality, interval, ef, tieUp) ==
    MINUTES_PER_DAY * MathRound(interval * ef, MINUTES_PER_DAY * 100, tieUp) - interval

\* Mature card (repetition >= 2): in days,
\*   Hard max(interval, round(interval * 1.2)),
\*   Easy max(interval + 1, round(interval * ef * 1.3)),
\*   Good max(interval + 1, round(interval * ef)).
matureInterval(quality, interval, ef, tieUp) ==
    IF quality = 3
    THEN MathMax(interval,
                 MINUTES_PER_DAY * MathRound(interval * 12, MINUTES_PER_DAY * 10, tieUp))
    ELSE IF quality = 5
    THEN MathMax(interval + MINUTES_PER_DAY,
                 MINUTES_PER_DAY * MathRound(interval * ef * 13, MINUTES_PER_DAY * 1000, tieUp))
    ELSE MathMax(interval + MINUTES_PER_DAY,
                 MINUTES_PER_DAY * MathRound(interval * ef, MINUTES_PER_DAY * 100, tieUp))

\* The whole function.  No path of it throws: every quality, in 0..5 or
\* not, takes one of the branches below and returns a result.
calculateNextReview(quality, repetition, easeFactor, interval, tieUp) ==
    IF isAgain(quality) THEN againResult(easeFactor)
    ELSE IF quality = 2 THEN hardFailResult(easeFactor)
    ELSE
      LET ef == newEaseFactor(quality, easeFactor)
          learning == isLearning(repetition, interval)
          step0 == isStep0(repetition, interval)
          sched ==
            IF learning /\ step0 THEN step0Result(quality)
            ELSE IF learning THEN step1Result(quality)
            ELSE IF repetition = 1
            THEN [interval |-> youngInterval(quality, interval, ef, tieUp),
                  repetition |-> repetition + 1]
            ELSE [interval |-> matureInterval(quality, interval, ef, tieUp),
                  repetition |-> repetition + 1]
      IN [interval |-> sched.interval, repetition |-> sched.repetition, easeFactor |-> ef]

(***************************************************************************)
(* reviewCard, createCard                                                  *)
(***************************************************************************)
\* Mutant: the pre-lapse interval is restored whole, not halved.
recoveryInterval_fullInterval(lapseInterval) ==
    MathMax(MINUTES_PER_DAY, lapseInterval)

\* Mutant: the halved interval is not rounded to whole days.
recoveryInterval_unrounded(lapseInterval) ==
    MathMax(MINUTES_PER_DAY, lapseInterval \div 2)

\* const LAPSE_NEW_INTERVAL_PERCENT = 0.5:
\* Math.max(1, Math.round(lapseInterval * 0.5)) days.  The halving is exact
\* in doubles, so an exact tie rounds up.
recoveryInterval(lapseInterval) ==
    MathMax(MINUTES_PER_DAY,
            MINUTES_PER_DAY * MathRound(lapseInterval, 2 * MINUTES_PER_DAY, TRUE))

\* Mutant: setDate(getDate() + newInterval) for every interval, which adds
\* nothing for an interval under a day.
nextReviewDate_daysOnly(at, newInterval) ==
    at + (newInterval \div MINUTES_PER_DAY) * MINUTES_PER_DAY

\* The instant reviewCard stores in nextReview: for a sub-day interval
\* setTime(getTime() + Math.round(newInterval * 1440) minutes), otherwise
\* setDate(getDate() + newInterval), which adds the whole days of
\* newInterval (a day is 1440 minutes: no daylight-saving shift).
nextReviewDate(at, newInterval) ==
    IF newInterval < MINUTES_PER_DAY
    THEN at + MathRound(newInterval * MINUTES_PER_DAY, MINUTES_PER_DAY, TRUE)
    ELSE at + (newInterval \div MINUTES_PER_DAY) * MINUTES_PER_DAY

\* Mutant: every failed review records the interval, graduated or not.
lapseTracked_anyFailure(c, quality) ==
    IF quality < 3 THEN c.interval ELSE c.lapseInterval

\* Mutant: any passed review forgets the recorded lapse.
lapseTracked_clearedOnPass(c, quality) ==
    IF quality < 3 /\ c.interval >= MINUTES_PER_DAY /\ c.repetition >= 1
    THEN c.interval
    ELSE IF quality >= 3 THEN Undefined ELSE c.lapseInterval

\* Track lapse: graduated card fails -> save pre-lapse interval.
lapseTracked(c, quality) ==
    IF quality < 3 /\ c.interval >= MINUTES_PER_DAY /\ c.repetition >= 1
    THEN c.interval
    ELSE c.lapseInterval

\* Lapse recovery applies when a lapse is tracked and the result graduates.
lapseRecovers(lapseInterval, result) ==
    /\ lapseInterval # Undefined
    /\ result.interval >= MINUTES_PER_DAY
    /\ result.repetition >= 1

\* Mutant: the recovery is applied but lapseInterval is not cleared.
reviewCard_keepsLapse(c, quality, at, tieUp) ==
    LET result == calculateNextReview(quality, c.repetition, c.easeFactor, c.interval, tieUp)
        lapse == lapseTracked(c, quality)
        recovers == lapseRecovers(lapse, result)
        newInterval ==
          IF recovers
          THEN MathMax(recoveryInterval(lapse), result.interval)
          ELSE result.interval
    IN [c EXCEPT !.interval = newInterval,
                 !.repetition = result.repetition,
                 !.easeFactor = result.easeFactor,
                 !.lapseInterval = lapse,
                 !.nextReview = nextReviewDate(at, newInterval),
                 !.updatedAt = at]

reviewCard(c, quality, at, tieUp) ==
    LET result == calculateNextReview(quality, c.repetition, c.easeFactor, c.interval, tieUp)
        lapse == lapseTracked(c, quality)
        recovers == lapseRecovers(lapse, result)
        newInterval ==
          IF recovers
          THEN MathMax(recoveryInterval(lapse), result.interval)
          ELSE result.interval
    IN [c EXCEPT !.interval = newInterval,
                 !.repetition = result.repetition,
                 !.easeFactor = result.easeFactor,
                 !.lapseInterval = IF recovers THEN Undefined ELSE lapse,
                 !.nextReview = nextReviewDate(at, newInterval),
                 !.updatedAt = at]

\* Mutant: the bands start above 80, 60 and 40.
calculateInitialEaseFactor_exclusiveBands(correctRate) ==
    IF correctRate = Undefined THEN 250
    ELSE IF correctRate > 80 THEN 270
    ELSE IF correctRate > 60 THEN 250
    ELSE IF correctRate > 40 THEN 230
    ELSE 200

calculateInitialEaseFactor(correctRate) ==
    IF correctRate = Undefined THEN 250
    ELSE IF correctRate >= 80 THEN 270
    ELSE IF correctRate >= 60 THEN 250
    ELSE IF correctRate >= 40 THEN 230
    ELSE 200

\* The scheduling fields of the card createCard returns (its id, deck and
\* texts play no part in scheduling).
createCard(correctRate, at) ==
    [correctRate |-> correctRate,
     interval |-> 0,
     repetition |-> 0,
     easeFactor |-> calculateInitialEaseFactor(correctRate),
     lapseInterval |-> Undefined,
     nextReview |-> at,
     createdAt |-> at,
     updatedAt |-> at]

(***************************************************************************)
(* The life of one card: created, then reviewed as the clock advances      *)
(***************************************************************************)
\* Mutant: a card due exactly now is not yet due.
isDue_strictlyPast(c, at) == c.nextReview < at

\* isDue: new Date(card.nextReview) <= new Date().
isDue(c, at) == c.nextReview <= at

\* type Quality = 0 | 1 | 2 | 3 | 4 | 5
Quality == 0..5

\* options.correctRate: absent, or a percentage; one value per band of
\* calculateInitialEaseFactor.
CorrectRates == {Undefined, 85, 65, 45, 20}

\* The arguments and the result of a direct call, while none is made.
NoArgs == [quality |-> 0, repetition |-> 0, easeFactor |-> 0, interval |-> 0, tieUp |-> FALSE]

NoResult == [interval |-> 0, repetition |-> 0, easeFactor |-> 0]

\* No query has been made.
NoQuery == [query |-> "none", args |-> <<>>, value |-> <<>>]

\* No row in the remote tables.
NoRemote == [decks |-> <<>>, cards |-> <<>>]

\* No login sync has run: the user is signed out.
NotSyncing ==
    [pc |-> "idle",
     local |-> [decks |-> <<>>, cards |-> <<>>, exams |-> <<>>],
     remoteData |-> NoRemote]

\* The initial state of the store: decks: [], cards: [], exams: [],
\* weakPointRecommendations: [].
EmptyStore ==
    /\ decks = <<>>
    /\ cards = <<>>
    /\ exams = <<>>
    /\ weakPointRecommendations = <<>>
    /\ queryResult = NoQuery
    /\ remote = NoRemote
    /\ sync = NotSyncing
    /\ ceilsUp = {}

Init ==
    /\ now = 0
    /\ \E correctRate \in CorrectRates : card = createCard(correctRate, now)
    /\ args = NoArgs
    /\ outcome = "idle"
    /\ ret = NoResult
    /\ EmptyStore

Reviewable(c) ==
    /\ c.interval <= MaxIntervalDays * MINUTES_PER_DAY
    /\ c.repetition <= MaxRepetition
    /\ c.easeFactor <= MaxEase

\* One answer: reviewCard(card, quality) at the current instant.
ReviewCard ==
    /\ Reviewable(card)
    /\ \E quality \in Quality, tieUp \in BOOLEAN :
         card' = reviewCard(card, quality, now, tieUp)
    /\ UNCHANGED <<now, args, outcome, ret>>
    /\ UNCHANGED syncVars
    /\ UNCHANGED storeVars

\* The clock advances by a day.
TickDay ==
    /\ now \div MINUTES_PER_DAY < MaxClockDays
    /\ now' = now + MINUTES_PER_DAY
    /\ UNCHANGED <<card, args, outcome, ret>>
    /\ UNCHANGED syncVars
    /\ UNCHANGED storeVars

Next == ReviewCard \/ TickDay

Spec == Init /\ [][Next]_vars

(***************************************************************************)
(* Direct calls of calculateNextReview on arbitrary arguments              *)
(***************************************************************************)
\* Qualities a caller can pass at run time: the type admits 0..5, a value
\* that escaped the type checker may be any number.
ArgQualities == -1..6

ArgRepetitions == 0..MaxArgRepetition

\* Ease factors from the floor up, in tenths, and the four initial values.
ArgEases == {e \in 130..MaxArgEase : e % 10 = 0}

\* Intervals: new (0), the learning steps and their neighbours, sub-day,
\* whole days, and days and a half or a quarter.
ArgIntervals ==
    {0, 1, 4, 5, 10, 720, 1439}
    \cup {d * MINUTES_PER_DAY : d \in 1..MaxArgDays}
    \cup {d * MINUTES_PER_DAY + 720 : d \in 1..2}
    \cup {1800}

InitCalc ==
    /\ now = 0
    /\ card = createCard(Undefined, 0)
    /\ \E quality \in ArgQualities, repetition \in ArgRepetitions,
          easeFactor \in ArgEases, interval \in ArgIntervals, tieUp \in BOOLEAN :
         args = [quality |-> quality, repetition |-> repetition,
                 easeFactor |-> easeFactor, interval |-> interval, tieUp |-> tieUp]
    /\ outcome = "pending"
    /\ ret = NoResult
    /\ EmptyStore

\* The call returns (the function has no throwing path).
Call ==
    /\ outcome = "pending"
    /\ ret' = calculateNextReview(args.quality, args.repetition, args.easeFactor,
                                  args.interval, args.tieUp)
    /\ outcome' = "returned"
    /\ UNCHANGED <<card, now, args>>
    /\ UNCHANGED syncVars
    /\ UNCHANGED storeVars

NextCalc == Call

SpecCalc == InitCalc /\ [][NextCalc]_vars

(***************************************************************************)
(* The store (stores/useStore.ts): due cards, exam statistics, study queue *)
(***************************************************************************)
\* String.prototype.includes, on strings as sequences of characters.
stringIncludes(str, pattern) ==
    \E k \in 0..(Len(str) - Len(pattern)) :
      SubSeq(str, k + 1, k + Len(pattern)) = pattern

\* Array.prototype.sort with a comparator: the sort is stable, elements
\* the comparator calls equal keep their order.  compareFn[i, j] is the
\* value of the comparator on the elements at positions i and j.
arraySort(s, compareFn) ==
    LET n == Len(s)
        before(i, j) ==
          \/ compareFn[i, j] < 0
          \/ (compareFn[i, j] = 0 /\ i < j)
        rank == SubSeq([i \in 1..n |-> Cardinality({j \in 1..n : before(j, i)}) + 1],
                       1, n)
    IN [p \in 1..n |-> s[CHOOSE i \in 1..n : rank[i] = p]]

\* Math.ceil(num / den) for den > 0.  An exact positive whole number is
\* where the double may sit just above it: ceilUp chooses.
MathCeil(num, den, ceilUp) ==
    IF num % den = 0
    THEN (num \div den) + (IF ceilUp /\ num > 0 THEN 1 ELSE 0)
    ELSE (num \div den) + 1

\* The comparator new Date(a.nextReview).getTime() -
\* new Date(b.nextReview).getTime() on the cards of s.
byNextReview(s) ==
    [i \in 1..Len(s), j \in 1..Len(s) |-> s[i].nextReview - s[j].nextReview]

\* Mutant: cards with the same nextReview come out in reverse input order,
\* as an unstable sort may leave them.
getDueCards_reversesTies(cs, at) ==
    LET due == SelectSeq(cs, LAMBDA c : isDue(c, at))
        reversed == [i \in 1..Len(due) |-> due[Len(due) + 1 - i]]
    IN arraySort(reversed, byNextReview(reversed))

\* getDueCards: cards.filter(isDue).sort(by nextReview, ascending).
getDueCards(cs, at) ==
    LET due == SelectSeq(cs, LAMBDA c : isDue(c, at))
    IN arraySort(due, byNextReview(due))

\* getDueCardsForDeck(deckId, subjectFilter): an absent or empty
\* subjectFilter ("") does not filter.
getDueCardsForDeck(cs, deckId, subjectFilter, at) ==
    LET deckCards == SelectSeq(cs, LAMBDA c : c.deckId = deckId)
        filtered ==
          IF subjectFilter # ""
          THEN SelectSeq(deckCards, LAMBDA c : c.subject = subjectFilter)
          ELSE deckCards
    IN getDueCards(filtered, at)

\* Mutant: the test of the id is missing, every card is reviewed.
reviewCardAction_everyCard(cs, cardId, quality, at, tieUp) ==
    [k \in 1..Len(cs) |-> reviewCard(cs[k], quality, at, tieUp)]

\* reviewCardAction(cardId, quality): cards.map(card => card.id === cardId
\* ? reviewCard(card, quality) : card).
reviewCardAction(cs, cardId, quality, at, tieUp) ==
    [k \in 1..Len(cs) |->
       IF cs[k].id = cardId THEN reviewCard(cs[k], quality, at, tieUp) ELSE cs[k]]

\* Mutant: the pattern is matched without the test for an empty pattern,
\* and "".includes-style matching accepts every deck name.
examDecks_noGuard(exam, ds) ==
    SelectSeq(ds, LAMBDA d : stringIncludes(d.name, exam.deckPattern))

\* The decks of an exam: deckPattern ? decks.filter(d =>
\* d.name.includes(deckPattern)) : [].
examDecks(exam, ds) ==
    IF exam.deckPattern # <<>>
    THEN SelectSeq(ds, LAMBDA d : stringIncludes(d.name, exam.deckPattern))
    ELSE <<>>

\* The cards of an exam: cards.filter(c => deckIds.has(c.deckId)).
examCards(exam, ds, cs) ==
    LET eds == examDecks(exam, ds)
        deckIds == {eds[k].id : k \in 1..Len(eds)}
    IN SelectSeq(cs, LAMBDA c : c.deckId \in deckIds)

\* JavaScript's NaN, where a number of days or of cards is expected.  It
\* is below every number of the model, and no comparison with it holds.
NaN == -2

\* An examDate that has the form YYYY-MM-DD the exam dialogs ask for
\* (/^\d{4}-\d{2}-\d{2}$/) and names no day, such as "2026-13-01".
NotADate == -3

\* new Date(examDate).getTime(): the UTC midnight of the day, and NaN for
\* a string that names no day.  A valid examDate is modelled by the number
\* of its day.
dateTime(examDate) ==
    IF examDate = NotADate THEN NaN ELSE examDate * MINUTES_PER_DAY

\* Math.max(1, Math.ceil((examDate - now) / 86400000)): the difference of
\* two instants divided by a day is exact in doubles; Math.ceil and
\* Math.max return NaN when given NaN.
daysLeft(exam, at) ==
    IF dateTime(exam.examDate) = NaN THEN NaN
    ELSE MathMax(1, MathCeil(dateTime(exam.examDate) - at, MINUTES_PER_DAY, FALSE))

\* Mutant: a card counts as mastered as soon as it has graduated.
isMastered_graduated(c) == c.repetition >= 1

\* c.repetition >= 3
isMastered(c) == c.repetition >= 3

\* First pass of getExamStats, one exam: the counts, and the weight and
\* daysLeft whose quotient is the urgency.
examRawData(exam, ds, cs, at) ==
    LET ec == examCards(exam, ds, cs)
        mastered == Len(SelectSeq(ec, isMastered))
    IN [examId |-> exam.id,
        daysLeft |-> daysLeft(exam, at),
        totalCards |-> Len(ec),
        masteredCards |-> mastered,
        dueCards |-> Len(SelectSeq(ec, LAMBDA c : c.nextReview <= at)),
        remaining |-> Len(ec) - mastered,
        weight |-> exam.weight]

RECURSIVE seqSum(_)
seqSum(s) == IF s = <<>> THEN 0 ELSE Head(s) + seqSum(Tail(s))

RECURSIVE seqProduct(_)
seqProduct(s) == IF s = <<>> THEN 1 ELSE Head(s) * seqProduct(Tail(s))

\* The sum of the urgencies times 10 * allDays, allDays being the product
\* of every daysLeft; NaN when a daysLeft is NaN.
urgencySum(rawData) ==
    LET n == Len(rawData)
        allDays == seqProduct([j \in 1..n |-> rawData[j].daysLeft])
    IN IF \E j \in 1..n : rawData[j].daysLeft = NaN THEN NaN
       ELSE seqSum([j \in 1..n |->
                      rawData[j].weight * (allDays \div rawData[j].daysLeft)])

\* Mutant: the share is not scaled by the number of exams.
dailyQuota_noExamCount(rawData, i, ceilUp) ==
    LET n == Len(rawData)
        allDays == seqProduct([j \in 1..n |-> rawData[j].daysLeft])
        d == rawData[i]
    IN IF d.daysLeft = NaN THEN NaN
       ELSE IF urgencySum(rawData) = NaN \/ urgencySum(rawData) = 0
       THEN MathMax(5, MathCeil(d.remaining * d.weight,
                                d.daysLeft * d.daysLeft * 10, ceilUp))
       ELSE MathMax(5, MathCeil(d.remaining * d.weight * allDays,
                                d.daysLeft * d.daysLeft * urgencySum(rawData), ceilUp))

\* Second pass of getExamStats, exam i:
\*   urgency = (1 / daysLeft) * weight, urgencySum = (sum of them) || 1,
\*   share = urgency / urgencySum, rawQuota = remaining / daysLeft,
\*   dailyQuota = Math.max(5, Math.ceil(rawQuota * share * exams.length)).
\* On fractions, with weight in tenths: the sum of the urgencies is
\* urgencySum / (10 * allDays), and
\*   rawQuota * share * n
\*     = remaining * weight * n / (daysLeft^2 * 10)    if the sum is 0 or NaN
\*                                                     (both falsy: || 1)
\*     = remaining * weight * allDays * n / (daysLeft^2 * urgencySum) otherwise.
\* An exam whose daysLeft is NaN has rawQuota NaN, and Math.ceil and
\* Math.max keep it: its dailyQuota is NaN.
dailyQuota(rawData, i, ceilUp) ==
    LET n == Len(rawData)
        allDays == seqProduct([j \in 1..n |-> rawData[j].daysLeft])
        d == rawData[i]
    IN IF d.daysLeft = NaN THEN NaN
       ELSE IF urgencySum(rawData) = NaN \/ urgencySum(rawData) = 0
       THEN MathMax(5, MathCeil(d.remaining * d.weight * n,
                                d.daysLeft * d.daysLeft * 10, ceilUp))
       ELSE MathMax(5, MathCeil(d.remaining * d.weight * allDays * n,
                                d.daysLeft * d.daysLeft * urgencySum(rawData), ceilUp))

\* The ExamStats of every exam, from the raw data of the first pass;
\* ceilUp is the set of exams whose product rounds up off a whole number.
examStatsOf(rawData, ceilUp) ==
    [i \in 1..Len(rawData) |->
       [examId |-> rawData[i].examId,
        daysLeft |-> rawData[i].daysLeft,
        totalCards |-> rawData[i].totalCards,
        masteredCards |-> rawData[i].masteredCards,
        dueCards |-> rawData[i].dueCards,
        dailyQuota |-> dailyQuota(rawData, i, i \in ceilUp)]]

\* The rawData array of the first pass, one entry per exam.
rawDataOf(es, ds, cs, at) ==
    SubSeq([i \in 1..Len(es) |-> examRawData(es[i], ds, cs, at)], 1, Len(es))

\* getExamStats: [] without exams.
getExamStats(es, ds, cs, at, ceilUp) ==
    IF Len(es) = 0 THEN <<>>
    ELSE examStatsOf(rawDataOf(es, ds, cs, at), ceilUp)

\* The double arithmetic is a function of the store and the instant: on
\* one store at one instant every call rounds alike.  Which exams round up
\* off a whole number is unknown only where it changes the quota.
ceilChoices(es, ds, cs, at) ==
    LET rawData == rawDataOf(es, ds, cs, at)
    IN SUBSET {i \in 1..Len(es) :
                 dailyQuota(rawData, i, TRUE) # dailyQuota(rawData, i, FALSE)}

\* getTotalDailyQuota: getExamStats().reduce((sum, s) => sum + s.dailyQuota, 0);
\* a sum with NaN is NaN.
getTotalDailyQuota(es, ds, cs, at, ceilUp) ==
    LET examStats == getExamStats(es, ds, cs, at, ceilUp)
        quotas == [i \in 1..Len(examStats) |-> examStats[i].dailyQuota]
    IN IF \E i \in 1..Len(quotas) : quotas[i] = NaN THEN NaN ELSE seqSum(quotas)

\* Mutant: the recommendations of every exam count, not only those made
\* for this exam's name.
weakScore_anyExam(exam, recs, subject) ==
    LET hits == {k \in 1..Len(recs) : recs[k].subject = subject}
    IN IF hits = {} THEN 0
       ELSE recs[CHOOSE k \in hits : \A h \in hits : h <= k].priorityScore

\* weakSubjectScores.get(subject) ?? 0: the recommendations of the exam
\* (by name) fill a Map in array order, so the last one of a subject wins.
weakScore(exam, recs, subject) ==
    LET hits == {k \in 1..Len(recs) :
                   recs[k].examName = exam.name /\ recs[k].subject = subject}
    IN IF hits = {} THEN 0
       ELSE recs[CHOOSE k \in hits : \A h \in hits : h <= k].priorityScore

\* Tier: 3 = priority subject and weak, 2 = priority subject, 1 = weak,
\* 0 = neither.
cardTier(exam, recs, c) ==
    LET isPriority == \E k \in 1..Len(exam.prioritySubjects) :
                        exam.prioritySubjects[k] = c.subject
        isWeak == weakScore(exam, recs, c.subject) > 0
    IN IF isPriority /\ isWeak THEN 3
       ELSE IF isPriority THEN 2
       ELSE IF isWeak THEN 1
       ELSE 0

\* Mutant: the comparator skips the tier and starts at the weak score.
compareInBucket_ignoresTier(exam, recs, a, b) ==
    IF weakScore(exam, recs, a.subject) # weakScore(exam, recs, b.subject)
    THEN weakScore(exam, recs, b.subject) - weakScore(exam, recs, a.subject)
    ELSE a.nextReview - b.nextReview

\* The comparator of the bucket sort: tier descending, then weak score
\* descending, then nextReview ascending.
compareInBucket(exam, recs, a, b) ==
    IF cardTier(exam, recs, a) # cardTier(exam, recs, b)
    THEN cardTier(exam, recs, b) - cardTier(exam, recs, a)
    ELSE IF weakScore(exam, recs, a.subject) # weakScore(exam, recs, b.subject)
    THEN weakScore(exam, recs, b.subject) - weakScore(exam, recs, a.subject)
    ELSE a.nextReview - b.nextReview

\* Mutant: the bucket is not cut at the daily quota.
examBucket_noSlice(stat, es, ds, cs, recs, at) ==
    LET exam == es[CHOOSE k \in 1..Len(es) :
                     /\ es[k].id = stat.examId
                     /\ \A h \in 1..(k - 1) : es[h].id # stat.examId]
        eds == examDecks(exam, ds)
        deckIds == {eds[k].id : k \in 1..Len(eds)}
        due == SelectSeq(cs, LAMBDA c : c.deckId \in deckIds /\ c.nextReview <= at)
        dueCards == arraySort(due, byNextReview(due))
    IN arraySort(dueCards,
                 [i \in 1..Len(dueCards), j \in 1..Len(dueCards) |->
                    compareInBucket(exam, recs, dueCards[i], dueCards[j])])

\* The bucket of one exam: its due cards sorted by nextReview, sorted
\* again by the comparator, cut at the daily quota (slice(0, dailyQuota);
\* slice takes NaN for 0).
examBucket(stat, es, ds, cs, recs, at) ==
    LET exam == es[CHOOSE k \in 1..Len(es) :
                     /\ es[k].id = stat.examId
                     /\ \A h \in 1..(k - 1) : es[h].id # stat.examId]
        eds == examDecks(exam, ds)
        deckIds == {eds[k].id : k \in 1..Len(eds)}
        due == SelectSeq(cs, LAMBDA c : c.deckId \in deckIds /\ c.nextReview <= at)
        dueCards == arraySort(due, byNextReview(due))
        sorted ==
          arraySort(dueCards,
                    [i \in 1..Len(dueCards), j \in 1..Len(dueCards) |->
                       compareInBucket(exam, recs, dueCards[i], dueCards[j])])
    IN SubSeq(sorted, 1, IF stat.dailyQuota = NaN THEN 0
                         ELSE IF stat.dailyQuota < Len(sorted) THEN stat.dailyQuota
                         ELSE Len(sorted))

\* Mutant: a pass visits the buckets from the last exam to the first.
RECURSIVE roundRobinPass_lastExamFirst(_, _, _)
roundRobinPass_lastExamFirst(buckets, pos, i) ==
    IF i > Len(buckets) THEN <<>>
    ELSE roundRobinPass_lastExamFirst(buckets, pos, i + 1)
         \o (IF pos <= Len(buckets[i]) THEN <<buckets[i][pos]>> ELSE <<>>)

\* One pass of the round-robin loop: the card at position pos of every
\* bucket that still has one, in bucket order.
RECURSIVE roundRobinPass(_, _, _)
roundRobinPass(buckets, pos, i) ==
    IF i > Len(buckets) THEN <<>>
    ELSE (IF pos <= Len(buckets[i]) THEN <<buckets[i][pos]>> ELSE <<>>)
         \o roundRobinPass(buckets, pos, i + 1)

\* Mutant: the buckets are appended one after the other.
RECURSIVE roundRobin_concatenates(_, _)
roundRobin_concatenates(buckets, pos) ==
    IF pos > Len(buckets) THEN <<>>
    ELSE buckets[pos] \o roundRobin_concatenates(buckets, pos + 1)

\* while (anyAdded): passes are made until one adds nothing.
RECURSIVE roundRobin(_, _)
roundRobin(buckets, pos) ==
    LET added == roundRobinPass(buckets, pos, 1)
    IN IF added = <<>> THEN <<>>
       ELSE added \o roundRobin(buckets, pos + 1)

\* Mutant: the loop makes one pass for every card of the buckets.
roundRobinPasses_perCard(buckets, pos) ==
    seqSum([i \in 1..Len(buckets) |-> Len(buckets[i])]) + 1

\* The number of passes of while (anyAdded) from position pos on: the
\* passes that add a card, and the one that adds nothing and ends the loop.
RECURSIVE roundRobinPasses(_, _)
roundRobinPasses(buckets, pos) ==
    IF roundRobinPass(buckets, pos, 1) = <<>> THEN 1
    ELSE 1 + roundRobinPasses(buckets, pos + 1)

\* examBuckets: examStats.map(stat => the bucket of the exam of stat).
examBuckets(examStats, es, ds, cs, recs, at) ==
    SubSeq([i \in 1..Len(examStats) |->
              examBucket(examStats[i], es, ds, cs, recs, at)], 1, Len(examStats))

\* Mutant: the early return for an empty examStats is missing.
getSmartStudyQueue_noEarlyReturn(es, ds, cs, recs, at, ceilUp) ==
    LET examStats == getExamStats(es, ds, cs, at, ceilUp)
    IN roundRobin(examBuckets(examStats, es, ds, cs, recs, at), 1)

\* getSmartStudyQueue: without exam statistics getDueCards(cards),
\* otherwise the buckets of the exams interleaved round-robin.
getSmartStudyQueue(es, ds, cs, recs, at, ceilUp) ==
    LET examStats == getExamStats(es, ds, cs, at, ceilUp)
    IN IF Len(examStats) = 0 THEN getDueCards(cs, at)
       ELSE roundRobin(examBuckets(examStats, es, ds, cs, recs, at), 1)

(***************************************************************************)
(* Stores the queries run on                                               *)
(***************************************************************************)
\* The instant of the queries: 10:00 UTC on day 20.
StoreNow == 20 * MINUTES_PER_DAY + 600

\* Two decks; "B" occurs in both names, "A" in the first, "AC" in none.
StoreDecks ==
    <<[id |-> "d1", name |-> <<"A", "B">>],
      [id |-> "d2", name |-> <<"B", "C">>]>>

\* A card created at an instant and not reviewed: it is due from then on.
newCard(at) == createCard(Undefined, at)

\* A card rated Good four times, the last time at an instant: 10 minutes,
\* 1 day, 4 days, 10 days; repetition 3, due ten days later.
masteredCard(at) ==
    LET created == at - 6 * MINUTES_PER_DAY
        c0 == createCard(Undefined, created)
        c1 == reviewCard(c0, 4, created, TRUE)
        c2 == reviewCard(c1, 4, at - 5 * MINUTES_PER_DAY, TRUE)
        c3 == reviewCard(c2, 4, at - 4 * MINUTES_PER_DAY, TRUE)
    IN reviewCard(c3, 4, at, TRUE)

\* A card of the store: the scheduling fields of sm2.ts with the id, the
\* deck and the subject ("" for a card without subject).
storeCard(id, deckId, subject, c) ==
    [id |-> id, deckId |-> deckId, subject |-> subject,
     correctRate |-> c.correctRate,
     interval |-> c.interval,
     repetition |-> c.repetition,
     easeFactor |-> c.easeFactor,
     lapseInterval |-> c.lapseInterval,
     nextReview |-> c.nextReview,
     createdAt |-> c.createdAt,
     updatedAt |-> c.updatedAt]

\* An exam; examDate is the day whose UTC midnight is the deadline.
storeExam(id, examDay, deckPattern, weight) ==
    [id |-> id, name |-> id, examDate |-> examDay,
     deckPattern |-> deckPattern, weight |-> weight, prioritySubjects |-> <<>>]

\* Cards to query: due since yesterday, due exactly now (new, and
\* mastered ten days ago: the same nextReview), not due; in both decks,
\* with and without a subject.
QueryCardTemplates ==
    {[deckId |-> "d1", subject |-> "", c |-> newCard(StoreNow - MINUTES_PER_DAY)],
     [deckId |-> "d1", subject |-> "tax", c |-> newCard(StoreNow)],
     [deckId |-> "d1", subject |-> "", c |-> masteredCard(StoreNow - 10 * MINUTES_PER_DAY)],
     [deckId |-> "d1", subject |-> "tax", c |-> masteredCard(StoreNow - MINUTES_PER_DAY)],
     [deckId |-> "d2", subject |-> "tax", c |-> newCard(StoreNow - MINUTES_PER_DAY)],
     [deckId |-> "d2", subject |-> "", c |-> newCard(StoreNow)],
     [deckId |-> "d2", subject |-> "tax", c |-> masteredCard(StoreNow - 10 * MINUTES_PER_DAY)],
     [deckId |-> "d2", subject |-> "", c |-> masteredCard(StoreNow - MINUTES_PER_DAY)]}

\* No exam, or one exam on the first deck.
QueryExamLists == {<<>>, <<storeExam("x1", 23, <<"A">>, 10)>>}

\* The cards of a store: ids in array order.
storeCards(n, template) ==
    [k \in 1..n |-> storeCard(k, template[k].deckId, template[k].subject, template[k].c)]

\* addCard(deckId, front, back, type, options): the card createCard
\* returns for a fresh id is appended.
addCard(cs, id, deckId, correctRate, at) ==
    Append(cs, storeCard(id, deckId, "", createCard(correctRate, at)))

\* importCards(deckId, newCards): one createCard per entry, each with a
\* fresh id, appended in order; the entries are given by their correctRate.
importCards(cs, deckId, newCards, at) ==
    cs \o [k \in 1..Len(newCards) |->
             storeCard(Len(cs) + k, deckId, "", createCard(newCards[k], at))]

InitQueries ==
    /\ now = StoreNow
    /\ card = createCard(Undefined, 0)
    /\ args = NoArgs
    /\ outcome = "idle"
    /\ ret = NoResult
    /\ decks = StoreDecks
    /\ \E n \in 0..MaxQueryCards : \E template \in [1..n -> QueryCardTemplates] :
         cards = storeCards(n, template)
    /\ exams \in QueryExamLists
    /\ weakPointRecommendations = <<>>
    /\ queryResult = NoQuery
    /\ remote = NoRemote
    /\ sync = NotSyncing
    /\ ceilsUp \in ceilChoices(exams, decks, cards, now)

\* getDueCards(cards) on all the cards of the store.
GetDueCards ==
    /\ queryResult' = [query |-> "getDueCards", args |-> <<>>,
                  value |-> getDueCards(cards, now)]
    /\ UNCHANGED <<card, now, args, outcome, ret>>
    /\ UNCHANGED syncVars
    /\ UNCHANGED <<decks, cards, exams, weakPointRecommendations, ceilsUp>>

\* getDueCardsForDeck(deckId, subjectFilter?).
GetDueCardsForDeck ==
    /\ \E d \in 1..Len(decks), subjectFilter \in {"", "tax"} :
         queryResult' = [query |-> "getDueCardsForDeck",
                    args |-> <<decks[d].id, subjectFilter>>,
                    value |-> getDueCardsForDeck(cards, decks[d].id, subjectFilter, now)]
    /\ UNCHANGED <<card, now, args, outcome, ret>>
    /\ UNCHANGED syncVars
    /\ UNCHANGED <<decks, cards, exams, weakPointRecommendations, ceilsUp>>

\* Mutant: the queue is built by sorting the store's own array of cards in
\* place.
GetSmartStudyQueue_sortsStore ==
    /\ queryResult' = [query |-> "getSmartStudyQueue", args |-> <<>>,
                       value |-> getSmartStudyQueue(exams, decks, cards,
                                                    weakPointRecommendations, now, ceilsUp)]
    /\ cards' = arraySort(cards, byNextReview(cards))
    /\ UNCHANGED <<card, now, args, outcome, ret>>
    /\ UNCHANGED syncVars
    /\ UNCHANGED <<decks, exams, weakPointRecommendations, ceilsUp>>

\* getSmartStudyQueue().
GetSmartStudyQueue ==
    /\ queryResult' = [query |-> "getSmartStudyQueue", args |-> <<>>,
                       value |-> getSmartStudyQueue(exams, decks, cards,
                                                    weakPointRecommendations, now, ceilsUp)]
    /\ UNCHANGED <<card, now, args, outcome, ret>>
    /\ UNCHANGED syncVars
    /\ UNCHANGED <<decks, cards, exams, weakPointRecommendations, ceilsUp>>

NextQueries == GetDueCards \/ GetDueCardsForDeck \/ GetSmartStudyQueue

SpecQueries == InitQueries /\ [][NextQueries]_vars

(***************************************************************************)
(* A store with exams whose cards are answered                             *)
(***************************************************************************)
\* Exams: a deadline in three days on the first deck; a deadline today
\* (its midnight has passed) on both decks, double weight; a deadline
\* five days ago with weight 0 whose pattern matches no deck.
StoreExamTemplates ==
    {[examDay |-> 23, deckPattern |-> <<"A">>, weight |-> 10],
     [examDay |-> 20, deckPattern |-> <<"B">>, weight |-> 20],
     [examDay |-> 15, deckPattern |-> <<"A", "C">>, weight |-> 0]}

StoreCardTemplates ==
    {[deckId |-> "d1", subject |-> "", c |-> masteredCard(StoreNow - 10 * MINUTES_PER_DAY)],
     [deckId |-> "d2", subject |-> "", c |-> masteredCard(StoreNow - MINUTES_PER_DAY)],
     [deckId |-> "d1", subject |-> "", c |-> newCard(StoreNow - MINUTES_PER_DAY)]}

\* The exams of a store: ids in array order.
storeExams(n, template) ==
    [k \in 1..n |-> storeExam(k, template[k].examDay, template[k].deckPattern,
                              template[k].weight)]

InitStore ==
    /\ now = StoreNow
    /\ card = createCard(Undefined, 0)
    /\ args = NoArgs
    /\ outcome = "idle"
    /\ ret = NoResult
    /\ decks = StoreDecks
    /\ \E n \in 0..MaxStoreCards : \E template \in [1..n -> StoreCardTemplates] :
         cards = storeCards(n, template)
    /\ \E n \in 0..MaxStoreExams : \E template \in [1..n -> StoreExamTemplates] :
         exams = storeExams(n, template)
    /\ weakPointRecommendations = <<>>
    /\ queryResult = NoQuery
    /\ remote = NoRemote
    /\ sync = NotSyncing
    /\ ceilsUp \in ceilChoices(exams, decks, cards, now)

\* An id that no card of the store has.
UnknownCardId == 0

\* reviewCardAction(cardId, quality).  One card is answered at the instant
\* of the model, or the id is the id of no card.  The quotas round as
\* before on an unchanged store.
ReviewCardAction ==
    /\ \A k \in 1..Len(cards) : cards[k].updatedAt < now
    /\ \E cardId \in {cards[k].id : k \in 1..Len(cards)} \cup {UnknownCardId},
          quality \in Quality, tieUp \in BOOLEAN :
         cards' = reviewCardAction(cards, cardId, quality, now, tieUp)
    /\ IF cards' = cards THEN ceilsUp' = ceilsUp
       ELSE ceilsUp' \in ceilChoices(exams, decks, cards', now)
    /\ UNCHANGED <<card, now, args, outcome, ret>>
    /\ UNCHANGED syncVars
    /\ UNCHANGED <<decks, exams, weakPointRecommendations, queryResult>>

\* getExamStats().
GetExamStats ==
    /\ queryResult' = [query |-> "getExamStats", args |-> <<>>,
                       value |-> getExamStats(exams, decks, cards, now, ceilsUp)]
    /\ UNCHANGED <<card, now, args, outcome, ret>>
    /\ UNCHANGED syncVars
    /\ UNCHANGED <<decks, cards, exams, weakPointRecommendations, ceilsUp>>

NextStore == ReviewCardAction \/ GetExamStats

SpecStore == InitStore /\ [][NextStore]_vars

(***************************************************************************)
(* Stores whose exams were typed into the exam dialogs                     *)
(***************************************************************************)
\* The dialogs accept every date of the form YYYY-MM-DD: the exams above,
\* and one whose date names no day.
DialogExamTemplates ==
    StoreExamTemplates
    \cup {[examDay |-> NotADate, deckPattern |-> <<"A">>, weight |-> 10]}

InitExams ==
    /\ now = StoreNow
    /\ card = createCard(Undefined, 0)
    /\ args = NoArgs
    /\ outcome = "idle"
    /\ ret = NoResult
    /\ decks = StoreDecks
    /\ \E n \in 0..MaxStoreCards : \E template \in [1..n -> StoreCardTemplates] :
         cards = storeCards(n, template)
    /\ \E n \in 0..MaxStoreExams : \E template \in [1..n -> DialogExamTemplates] :
         exams = storeExams(n, template)
    /\ weakPointRecommendations = <<>>
    /\ queryResult = NoQuery
    /\ remote = NoRemote
    /\ sync = NotSyncing
    /\ ceilsUp \in ceilChoices(exams, decks, cards, now)

NextExams == GetExamStats

SpecExams == InitExams /\ [][NextExams]_vars

(***************************************************************************)
(* Stores built to exercise the daily quota of getExamStats                *)
(***************************************************************************)
\* Days from now to the deadline.
QuotaDays == {1, 3, 5, 10}

\* Weights 0.5, 1.0 and 2.0.
QuotaWeights == {5, 10, 20}

\* Cards of an exam still to be mastered.
QuotaRemaining == {2, 5}

\* One character per deck name: exam k studies deck k alone.
QuotaLetters == <<"A", "B", "C", "D">>

\* The decks of n exams.
quotaDecks(n) == [k \in 1..n |-> [id |-> QuotaLetters[k], name |-> <<QuotaLetters[k]>>]]

\* The exams: deadline at the midnight that ends days[k] days from now.
quotaExams(n, days, weight) ==
    [k \in 1..n |-> storeExam(k, (StoreNow \div MINUTES_PER_DAY) + days[k],
                              <<QuotaLetters[k]>>, weight[k])]

\* The cards: for each exam in turn one mastered card, then remaining[k]
\* new cards.
quotaCards(n, remaining) ==
    LET upTo(k) == seqSum([j \in 1..k |-> remaining[j] + 1])
        owner(p) == CHOOSE k \in 1..n : upTo(k - 1) < p /\ p <= upTo(k)
    IN [p \in 1..upTo(n) |->
          storeCard(p, QuotaLetters[owner(p)], "",
                    IF p = upTo(owner(p) - 1) + 1
                    THEN masteredCard(StoreNow - MINUTES_PER_DAY)
                    ELSE newCard(StoreNow - MINUTES_PER_DAY))]

\* Goal A: deadline in 10 days, weight 1, 50 cards remaining; goal B:
\* deadline in 5 days, weight 2, 20 cards remaining.
TwoGoals ==
    [days |-> <<10, 5>>, weight |-> <<10, 20>>, remaining |-> <<50, 20>>]

InitQuota ==
    /\ now = StoreNow
    /\ card = createCard(Undefined, 0)
    /\ args = NoArgs
    /\ outcome = "idle"
    /\ ret = NoResult
    /\ \E n \in 1..MaxQuotaExams :
         \E days \in [1..n -> QuotaDays], weight \in [1..n -> QuotaWeights],
            remaining \in [1..n -> QuotaRemaining] \cup {TwoGoals.remaining} :
           /\ remaining = TwoGoals.remaining
              => (n = 2 /\ days = TwoGoals.days /\ weight = TwoGoals.weight)
           /\ decks = quotaDecks(n)
           /\ exams = quotaExams(n, days, weight)
           /\ cards = quotaCards(n, remaining)
    /\ weakPointRecommendations = <<>>
    /\ queryResult = NoQuery
    /\ remote = NoRemote
    /\ sync = NotSyncing
    /\ ceilsUp \in ceilChoices(exams, decks, cards, now)

NextQuota == GetExamStats

SpecQuota == InitQuota /\ [][NextQuota]_vars

(***************************************************************************)
(* Stores built to exercise the study queue of getSmartStudyQueue          *)
(***************************************************************************)
\* The subjects of the cards of a deck, in turn: none, "tax", "law", "civ".
QueueSubjects == <<"", "tax", "law", "civ">>

\* The scheduling of the cards of a deck, in turn: new since yesterday,
\* new now, new since two days, mastered and due now, mastered and not due.
queueSchedule(p) ==
    LET turn == ((p - 1) % 5) + 1
    IN IF turn = 1 THEN newCard(StoreNow - MINUTES_PER_DAY)
       ELSE IF turn = 2 THEN newCard(StoreNow)
       ELSE IF turn = 3 THEN newCard(StoreNow - 2 * MINUTES_PER_DAY)
       ELSE IF turn = 4 THEN masteredCard(StoreNow - 10 * MINUTES_PER_DAY)
       ELSE masteredCard(StoreNow - MINUTES_PER_DAY)

\* The decks: one per exam, named by its letter, and a deck "AB" whose
\* name contains the patterns of the first two exams.
queueDecks(n) ==
    quotaDecks(n) \o <<[id |-> "S", name |-> <<"A", "B">>]>>

\* The exams: exam k studies the decks whose name contains letter k, all
\* with weight 1 and the same priority subjects.
queueExams(n, days, priority) ==
    [k \in 1..n |->
       [storeExam(k, (StoreNow \div MINUTES_PER_DAY) + days[k],
                  <<QuotaLetters[k]>>, 10)
        EXCEPT !.prioritySubjects = priority]]

\* The cards: size[k] cards in the deck of exam k, then the cards of the
\* deck "AB"; ids in array order.
queueCards(n, size, shared) ==
    LET upTo(k) == seqSum([j \in 1..k |-> size[j]])
        owner(p) == IF p > upTo(n) THEN 0
                    ELSE CHOOSE k \in 1..n : upTo(k - 1) < p /\ p <= upTo(k)
        first(p) == IF p > upTo(n) THEN upTo(n) ELSE upTo(owner(p) - 1)
    IN [p \in 1..(upTo(n) + shared) |->
          storeCard(p, IF owner(p) = 0 THEN "S" ELSE QuotaLetters[owner(p)],
                    QueueSubjects[((p - first(p) - 1) % 4) + 1],
                    queueSchedule(p - first(p)))]

\* A weak-point recommendation as getSmartStudyQueue reads it: examName,
\* subject, priorityScore.
weakPointRecommendation(examName, subject, priorityScore) ==
    [examName |-> examName, subject |-> subject, priorityScore |-> priorityScore]

\* Feeds: empty; one weak subject of exam 1; several for exams 1 and 2,
\* with "law" of exam 1 given twice (the later score counts) and a score
\* of 0.
QueueRecommendations ==
    {<<>>,
     <<weakPointRecommendation(1, "law", 5)>>,
     <<weakPointRecommendation(1, "law", 5), weakPointRecommendation(1, "tax", 3),
       weakPointRecommendation(2, "tax", 4), weakPointRecommendation(1, "law", 2),
       weakPointRecommendation(2, "law", 0), weakPointRecommendation(2, "civ", 1)>>}

\* Deadlines: every exam tomorrow, or every other exam in three days.
queueDays(n) ==
    {[k \in 1..n |-> 1],
     [k \in 1..n |-> IF k % 2 = 1 THEN 3 ELSE 1],
     [k \in 1..n |-> IF k % 2 = 0 THEN 3 ELSE 1]}

InitQueue ==
    /\ now = StoreNow
    /\ card = createCard(Undefined, 0)
    /\ args = NoArgs
    /\ outcome = "idle"
    /\ ret = NoResult
    /\ \E n \in 1..MaxQueueExams :
         \E size \in [1..n -> {0, 2, MaxQueueCards}], days \in queueDays(n),
            priority \in {<<>>, <<"tax", "civ">>}, shared \in {0, 2} :
           /\ decks = queueDecks(n)
           /\ exams = queueExams(n, days, priority)
           /\ cards = queueCards(n, size, shared)
    /\ weakPointRecommendations \in QueueRecommendations
    /\ queryResult = NoQuery
    /\ remote = NoRemote
    /\ sync = NotSyncing
    /\ ceilsUp \in ceilChoices(exams, decks, cards, now)

\* getTotalDailyQuota().
GetTotalDailyQuota ==
    /\ queryResult' = [query |-> "getTotalDailyQuota", args |-> <<>>,
                       value |-> getTotalDailyQuota(exams, decks, cards, now, ceilsUp)]
    /\ UNCHANGED <<card, now, args, outcome, ret>>
    /\ UNCHANGED syncVars
    /\ UNCHANGED <<decks, cards, exams, weakPointRecommendations, ceilsUp>>

NextQueue == GetExamStats \/ GetTotalDailyQuota \/ GetSmartStudyQueue

SpecQueue == InitQueue /\ [][NextQueue]_vars

(***************************************************************************)
(* Stores whose exams get another deck pattern in the exam settings        *)
(***************************************************************************)
\* updateExam(id, { deckPattern }): the exam with the id gets the pattern,
\* the others are kept.
updateExam(es, id, deckPattern) ==
    [k \in 1..Len(es) |->
       IF es[k].id = id THEN [es[k] EXCEPT !.deckPattern = deckPattern] ELSE es[k]]

\* What the pattern prompt returns: the empty string, the letter of a
\* deck, a letter no deck has.
MatchPatterns == {<<>>, <<"A">>, <<"B">>, <<"C">>}

\* The letters of the decks and of the exams' first patterns.
MatchLetters == <<"A", "B">>

\* Decks "A", "B" and "AB" with their cards, and one or two exams on
\* "A" and "B".
InitMatch ==
    /\ now = StoreNow
    /\ card = createCard(Undefined, 0)
    /\ args = NoArgs
    /\ outcome = "idle"
    /\ ret = NoResult
    /\ \E n \in 1..Len(MatchLetters) :
         \E size \in [1..Len(MatchLetters) -> {0, 2, MaxQueueCards}],
            days \in queueDays(n), shared \in {0, 2} :
           /\ decks = queueDecks(Len(MatchLetters))
           /\ exams = queueExams(n, days, <<>>)
           /\ cards = queueCards(Len(MatchLetters), size, shared)
    /\ weakPointRecommendations = <<>>
    /\ queryResult = NoQuery
    /\ remote = NoRemote
    /\ sync = NotSyncing
    /\ ceilsUp \in ceilChoices(exams, decks, cards, now)

\* The pattern button of the exam settings: prompt, then
\* updateExam(exam.id, { deckPattern: p }).
UpdateExam ==
    /\ \E i \in 1..Len(exams), p \in MatchPatterns :
         exams' = updateExam(exams, exams[i].id, p)
    /\ ceilsUp' \in ceilChoices(exams', decks, cards, now)
    /\ UNCHANGED <<card, now, args, outcome, ret>>
    /\ UNCHANGED syncVars
    /\ UNCHANGED <<decks, cards, weakPointRecommendations, queryResult>>

NextMatch == UpdateExam \/ GetSmartStudyQueue

SpecMatch == InitMatch /\ [][NextMatch]_vars

(***************************************************************************)
(* Calls that compute: calculateNextReview and the loop of the study queue *)
(***************************************************************************)
InitCalls == InitCalc \/ InitQueue

NextCalls == Call \/ GetSmartStudyQueue

SpecCalls == InitCalls /\ [][NextCalls]_vars

(***************************************************************************)
(* Cards being created: addCard and importCards as the clock advances      *)
(***************************************************************************)
\* options.correctRate of a new card: absent, or a percentage at and next
\* to the limits of the bands of calculateInitialEaseFactor.
CreateCorrectRates == {Undefined, 0, 39, 40, 59, 60, 79, 80, 100}

InitCreate ==
    /\ now = 0
    /\ card = createCard(Undefined, 0)
    /\ args = NoArgs
    /\ outcome = "idle"
    /\ ret = NoResult
    /\ decks = StoreDecks
    /\ cards = <<>>
    /\ exams = <<>>
    /\ weakPointRecommendations = <<>>
    /\ queryResult = NoQuery
    /\ remote = NoRemote
    /\ sync = NotSyncing
    /\ ceilsUp = {}

\* addCard(deckId, front, back, type, options) with uuidv4() as the id.
AddCard ==
    /\ Len(cards) < MaxCreatedCards
    /\ \E correctRate \in CreateCorrectRates :
         cards' = addCard(cards, Len(cards) + 1, decks[1].id, correctRate, now)
    /\ UNCHANGED <<card, now, args, outcome, ret>>
    /\ UNCHANGED syncVars
    /\ UNCHANGED <<decks, exams, weakPointRecommendations, queryResult, ceilsUp>>

\* importCards(deckId, newCards) with two entries.
ImportCards ==
    /\ Len(cards) + 2 <= MaxCreatedCards
    /\ \E newCards \in CreateCorrectRates \X CreateCorrectRates :
         cards' = importCards(cards, decks[1].id, newCards, now)
    /\ UNCHANGED <<card, now, args, outcome, ret>>
    /\ UNCHANGED syncVars
    /\ UNCHANGED <<decks, exams, weakPointRecommendations, queryResult, ceilsUp>>

NextCreate == AddCard \/ ImportCards \/ TickDay

SpecCreate == InitCreate /\ [][NextCreate]_vars

(***************************************************************************)
(* The login sync (App.tsx doSync, lib/syncService.ts) beside the store    *)
(***************************************************************************)
\* item.updatedAt, undefined for a record without the field (a deck).
updatedAtOf(item) ==
    IF "updatedAt" \in DOMAIN item THEN item.updatedAt ELSE Undefined

\* Mutant: only the ids the local list knows are merged; a remote id
\* missing locally is dropped.
RECURSIVE mergeById_knownIdsOnly(_, _)
mergeById_knownIdsOnly(local, remoteRows) ==
    IF remoteRows = <<>> THEN local
    ELSE LET item == Head(remoteRows)
             at == {k \in 1..Len(local) : local[k].id = item.id}
             merged ==
               IF at = {} THEN local
               ELSE LET k == CHOOSE j \in at : TRUE
                        existing == local[k]
                    IN IF \/ /\ updatedAtOf(item) # Undefined
                             /\ updatedAtOf(existing) # Undefined
                             /\ updatedAtOf(item) > updatedAtOf(existing)
                          \/ /\ updatedAtOf(existing) = Undefined
                             /\ updatedAtOf(item) # Undefined
                       THEN [local EXCEPT ![k] = item]
                       ELSE local
         IN mergeById_knownIdsOnly(merged, Tail(remoteRows))

\* mergeById(local, remote): a Map keyed by id filled with the local items;
\* a remote item takes the place of the local one when it is newer
\* (updatedAt strictly later) or when only the remote one has an updatedAt,
\* and is added at the end when its id is missing locally.
RECURSIVE mergeById(_, _)
mergeById(local, remoteRows) ==
    IF remoteRows = <<>> THEN local
    ELSE LET item == Head(remoteRows)
             at == {k \in 1..Len(local) : local[k].id = item.id}
             merged ==
               IF at = {} THEN Append(local, item)
               ELSE LET k == CHOOSE j \in at : TRUE
                        existing == local[k]
                    IN IF \/ /\ updatedAtOf(item) # Undefined
                             /\ updatedAtOf(existing) # Undefined
                             /\ updatedAtOf(item) > updatedAtOf(existing)
                          \/ /\ updatedAtOf(existing) = Undefined
                             /\ updatedAtOf(item) # Undefined
                       THEN [local EXCEPT ![k] = item]
                       ELSE local
         IN mergeById(merged, Tail(remoteRows))

\* The columns upsertCards writes and fetchCards reads back: every
\* scheduling field but lapseInterval, which has no column.
cardRow(c) == [c EXCEPT !.lapseInterval = Undefined]

\* upsert: a row with the id is replaced, another one is added.
RECURSIVE upsert(_, _)
upsert(rows, items) ==
    IF items = <<>> THEN rows
    ELSE LET item == Head(items)
             at == {k \in 1..Len(rows) : rows[k].id = item.id}
             written == IF at = {} THEN Append(rows, item)
                        ELSE [rows EXCEPT ![CHOOSE j \in at : TRUE] = item]
         IN upsert(written, Tail(items))

\* syncToRemote(userId, decks, cards, ...): upsertDeck for every deck and
\* upsertCards for the cards.
syncToRemote(rows, ds, cs) ==
    [decks |-> upsert(rows.decks, ds),
     cards |-> upsert(rows.cards, [k \in 1..Len(cs) |-> cardRow(cs[k])])]

\* The orders in which a select may return the rows.
rowOrders(rows) ==
    LET n == Len(rows)
    IN {[k \in 1..n |-> rows[order[k]]] :
          order \in {f \in [1..n -> 1..n] : \A a, b \in 1..n : f[a] = f[b] => a = b}}

\* deleteDeck(id) on the local store: the deck and its cards are filtered
\* out.
deleteDeck(ds, cs, id) ==
    [decks |-> SelectSeq(ds, LAMBDA d : d.id # id),
     cards |-> SelectSeq(cs, LAMBDA c : c.deckId # id)]

\* deleteCardsByDeckRemote(id) and deleteDeckRemote(id): each request
\* deletes its rows or fails (the error is only logged).
deleteRemote(rows, id, cardsDeleted, deckDeleted) ==
    [decks |-> IF deckDeleted THEN SelectSeq(rows.decks, LAMBDA d : d.id # id)
               ELSE rows.decks,
     cards |-> IF cardsDeleted THEN SelectSeq(rows.cards, LAMBDA c : c.deckId # id)
               ELSE rows.cards]

\* The store of a device and the remote tables before the login: never
\* synchronised, synchronised, or synchronised by another device on which
\* the first card was answered a minute ago.
InitSync ==
    /\ now = StoreNow
    /\ card = createCard(Undefined, 0)
    /\ args = NoArgs
    /\ outcome = "idle"
    /\ ret = NoResult
    /\ decks = StoreDecks
    /\ \E n \in 0..MaxSyncCards : \E template \in [1..n -> StoreCardTemplates] :
         cards = storeCards(n, template)
    /\ exams = <<>>
    /\ weakPointRecommendations = <<>>
    /\ queryResult = NoQuery
    /\ ceilsUp = {}
    /\ remote \in {NoRemote,
                   syncToRemote(NoRemote, decks, cards),
                   syncToRemote(NoRemote, decks,
                                reviewCardAction(cards, 1, 4, StoreNow - 1, TRUE))}
    /\ sync = NotSyncing

\* The user logs in: doSync starts with the decks, cards and exams of the
\* render it was created in, and awaits fetchAllFromRemote.
DoSync ==
    /\ sync.pc = "idle"
    /\ sync' = [pc |-> "fetching",
                local |-> [decks |-> decks, cards |-> cards, exams |-> exams],
                remoteData |-> NoRemote]
    /\ UNCHANGED <<card, now, args, outcome, ret, remote>>
    /\ UNCHANGED storeVars

\* The selects of fetchAllFromRemote read the rows of the tables; doSync
\* resumes with them at its next step.
FetchAllFromRemote ==
    /\ sync.pc = "fetching"
    /\ \E ds \in rowOrders(remote.decks), cs \in rowOrders(remote.cards) :
         sync' = [sync EXCEPT !.pc = "fetched",
                              !.remoteData = [decks |-> ds, cards |-> cs]]
    /\ UNCHANGED <<card, now, args, outcome, ret, remote>>
    /\ UNCHANGED storeVars

\* if (remoteData.decks.length > 0 || remoteData.cards.length > 0)
\*   useStore.setState({ decks: mergeById(decks, remoteData.decks),
\*                       cards: mergeById(cards, remoteData.cards), ... }),
\* with the decks and cards of the closure; no exams are stored remotely,
\* so exams is set to the closure's.
SetMergedState ==
    /\ sync.pc = "fetched"
    /\ IF sync.remoteData.decks # <<>> \/ sync.remoteData.cards # <<>>
       THEN /\ decks' = mergeById(sync.local.decks, sync.remoteData.decks)
            /\ cards' = mergeById(sync.local.cards, sync.remoteData.cards)
            /\ exams' = sync.local.exams
       ELSE UNCHANGED <<decks, cards, exams>>
    /\ ceilsUp' \in ceilChoices(exams', decks', cards', now)
    /\ sync' = [sync EXCEPT !.pc = "merged"]
    /\ UNCHANGED <<card, now, args, outcome, ret, remote>>
    /\ UNCHANGED <<weakPointRecommendations, queryResult>>

\* await syncToRemote(user.id, currentState.decks, currentState.cards, ...):
\* the upserts are written, or fail and are only logged.
SyncToRemote ==
    /\ sync.pc = "merged"
    /\ remote' \in {syncToRemote(remote, decks, cards), remote}
    /\ sync' = [sync EXCEPT !.pc = "done"]
    /\ UNCHANGED <<card, now, args, outcome, ret>>
    /\ UNCHANGED storeVars

\* The background sync: two seconds after the last change of the store,
\* while the user is logged in, syncToRemote with the store's data.
BackgroundSync ==
    /\ sync.pc # "idle"
    /\ remote' = syncToRemote(remote, decks, cards)
    /\ UNCHANGED <<card, now, args, outcome, ret, sync>>
    /\ UNCHANGED storeVars

\* The answer given on the device: Good.
SyncQualities == {4}

\* reviewCardAction(cardId, quality) on a card of the store, at any
\* moment of the sync.
AnswerCard ==
    /\ \A k \in 1..Len(cards) : cards[k].updatedAt < now
    /\ \E k \in 1..Len(cards), quality \in SyncQualities, tieUp \in BOOLEAN :
         cards' = reviewCardAction(cards, cards[k].id, quality, now, tieUp)
    /\ ceilsUp' \in ceilChoices(exams, decks, cards', now)
    /\ UNCHANGED <<card, now, args, outcome, ret>>
    /\ UNCHANGED syncVars
    /\ UNCHANGED <<decks, exams, weakPointRecommendations, queryResult>>

\* deleteDeck(id): the local set, then the two remote requests.
DeleteDeck ==
    /\ \E d \in 1..Len(decks), cardsDeleted \in BOOLEAN, deckDeleted \in BOOLEAN :
         /\ decks' = deleteDeck(decks, cards, decks[d].id).decks
         /\ cards' = deleteDeck(decks, cards, decks[d].id).cards
         /\ remote' = deleteRemote(remote, decks[d].id, cardsDeleted, deckDeleted)
    /\ ceilsUp' \in ceilChoices(exams, decks', cards', now)
    /\ UNCHANGED <<card, now, args, outcome, ret, sync>>
    /\ UNCHANGED <<exams, weakPointRecommendations, queryResult>>

NextSync ==
    \/ DoSync
    \/ FetchAllFromRemote
    \/ SetMergedState
    \/ SyncToRemote
    \/ BackgroundSync
    \/ DeleteDeck
    \/ AnswerCard

SpecSync == InitSync /\ [][NextSync]_vars

(***************************************************************************)
(* Properties of the card's life (specification Spec)                      *)
(***************************************************************************)
\* C1: a card produced by createCard and put through any sequence of
\* reviewCard calls with qualities 0..5 has easeFactor >= 1.3 in every
\* state reached.
C1_EaseFactorAtLeastFloor == card.easeFactor >= 130

\* A reviewed card whose ease factor was cut down to the floor.
C1_Witness ==
    /\ card.easeFactor = 130
    /\ card.interval > 0
    /\ calculateInitialEaseFactor(card.correctRate) = 200

\* C2: after every reviewCard transition the interval is at least one
\* minute and the repetition is non-negative, so that no reviewed card has
\* the interval 0 of a never-reviewed one.
C2_ReviewedIntervalAtLeastMinute ==
    [][ReviewCard => (card'.interval >= 1 /\ card'.repetition >= 0)]_vars

\* A card reviewed (later than its creation) down to the one-minute step.
C2_Witness ==
    /\ card.interval = 1
    /\ card.repetition = 0
    /\ card.updatedAt > card.createdAt

(***************************************************************************)
(* Properties of calculateNextReview (specification SpecCalc)              *)
(***************************************************************************)
Returned == outcome = "returned"

\* The integers nearest to num / den (two of them on an exact tie).
Roundings(num, den) ==
    {r \in (num \div den)..((num \div den) + 1) :
        2 * den * r - 2 * num \in (0 - den)..den}

\* ret.interval is max(floorMinutes, round(args.interval * ret.easeFactor
\* * factor / 10) days), factor in tenths.
GrownTo(floorMinutes, factor) ==
    \E r \in Roundings(args.interval * ret.easeFactor * factor, MINUTES_PER_DAY * 1000) :
        ret.interval = (IF floorMinutes >= r * MINUTES_PER_DAY
                        THEN floorMinutes ELSE r * MINUTES_PER_DAY)

\* C3 as stated: a call with a quality outside 0..5 fails with
\* InvalidRating instead of returning a scheduling state.
C3_InvalidRatingRaised ==
    args.quality \notin Quality => outcome \in {"idle", "pending", "InvalidRating"}

\* C3 amended: no call fails.  A quality below 0 is scheduled as Again
\* (1 minute, repetition 0, ease factor - 0.2 floored at 1.3); a quality
\* above 5 takes the success path with the ease factor of the formula
\* (+ 0.16 for quality 6) and the Good schedule of its phase.
C3_OutOfRangeQualityReturns ==
    /\ outcome = "pending" => ENABLED Call
    /\ (Returned /\ args.quality < 0) =>
          ret = [interval |-> 1, repetition |-> 0,
                 easeFactor |-> IF args.easeFactor - 20 >= 130
                                THEN args.easeFactor - 20 ELSE 130]
    /\ (Returned /\ args.quality = 6) =>
          /\ ret.easeFactor = args.easeFactor + 16
          /\ (args.repetition = 0 /\ args.interval < 5) =>
                (ret.interval = 10 /\ ret.repetition = 0)
          /\ (args.repetition = 0 /\ args.interval >= 5) =>
                (ret.interval = MINUTES_PER_DAY /\ ret.repetition = 1)
          /\ (args.repetition = 1 /\ args.interval >= MINUTES_PER_DAY) =>
                (GrownTo(4 * MINUTES_PER_DAY, 10) /\ ret.repetition = 2)
          /\ (args.repetition >= 2 /\ args.interval >= MINUTES_PER_DAY) =>
                (GrownTo(args.interval + MINUTES_PER_DAY, 10)
                 /\ ret.repetition = args.repetition + 1)

\* A call with quality -1 on a mature card has returned.
C3_Witness ==
    /\ Returned
    /\ args.quality = -1
    /\ args.repetition >= 2
    /\ args.interval >= MINUTES_PER_DAY

\* C4: for quality 0 or 1 the result is interval 1 minute, repetition 0 and
\* easeFactor max(1.3, easeFactor - 0.2), whatever the prior repetition and
\* interval.
C4_AgainResets ==
    (Returned /\ args.quality \in {0, 1}) =>
        /\ ret.interval = 1
        /\ ret.repetition = 0
        /\ ret.easeFactor = (IF args.easeFactor - 20 >= 130
                             THEN args.easeFactor - 20 ELSE 130)

\* Again on a mature card whose ease factor is cut to the floor.
C4_Witness ==
    /\ Returned
    /\ args.quality = 1
    /\ args.repetition = 3
    /\ args.interval = 10 * MINUTES_PER_DAY
    /\ args.easeFactor = 140
    /\ ret.easeFactor = 130

\* C5: for quality 2 the result is interval 10 minutes, repetition 0 and
\* easeFactor max(1.3, easeFactor - 0.1), whatever the prior repetition and
\* interval.
C5_HardFailResets ==
    (Returned /\ args.quality = 2) =>
        /\ ret.interval = 10
        /\ ret.repetition = 0
        /\ ret.easeFactor = (IF args.easeFactor - 10 >= 130
                             THEN args.easeFactor - 10 ELSE 130)

\* Hard-fail on a young card.
C5_Witness ==
    /\ Returned
    /\ args.quality = 2
    /\ args.repetition = 1
    /\ args.interval = 4 * MINUTES_PER_DAY
    /\ args.easeFactor = 250
    /\ ret.easeFactor = 240

\* C6: for quality 3, 4, 5 the returned easeFactor is the adjusted one in
\* every branch: + 0.10 for quality 5, unchanged for quality 4, - 0.14 for
\* quality 3, floored at 1.3.
C6_EaseFactorAdjusted ==
    (Returned /\ args.quality \in 3..5) =>
        LET delta == CASE args.quality = 5 -> 10
                       [] args.quality = 4 -> 0
                       [] args.quality = 3 -> 0 - 14
        IN ret.easeFactor = (IF args.easeFactor + delta >= 130
                             THEN args.easeFactor + delta ELSE 130)

\* Scenario C of the specification: a young card (repetition 1, interval 4
\* days, ease factor 2.5) rated 4 keeps its ease factor.
C6_Witness ==
    /\ Returned
    /\ args.quality = 4
    /\ args.repetition = 1
    /\ args.interval = 4 * MINUTES_PER_DAY
    /\ args.easeFactor = 250
    /\ ret = [interval |-> 10 * MINUTES_PER_DAY, repetition |-> 2, easeFactor |-> 250]

\* C7: at learning step 0 (repetition 0 and interval < 5 minutes, a new
\* card's interval 0 included) quality 3 gives (1 minute, repetition 0),
\* quality 4 (10 minutes, repetition 0), quality 5 (4 days, repetition 1).
C7_LearningStep0 ==
    (Returned /\ args.quality \in 3..5 /\ args.repetition = 0 /\ args.interval < 5) =>
        /\ args.quality = 3 => (ret.interval = 1 /\ ret.repetition = 0)
        /\ args.quality = 4 => (ret.interval = 10 /\ ret.repetition = 0)
        /\ args.quality = 5 => (ret.interval = 4 * MINUTES_PER_DAY /\ ret.repetition = 1)

\* Scenario A of the specification: a new card rated Good.
C7_Witness ==
    /\ Returned
    /\ args.quality = 4
    /\ args.repetition = 0
    /\ args.interval = 0
    /\ args.easeFactor = 250
    /\ ret.interval = 10

\* C8: at learning step 1 (repetition 0 and 5 minutes <= interval < 1 day)
\* quality 3 gives (10 minutes, repetition 0), quality 4 (1 day,
\* repetition 1), quality 5 (4 days, repetition 1).
C8_LearningStep1 ==
    (/\ Returned
     /\ args.quality \in 3..5
     /\ args.repetition = 0
     /\ args.interval >= 5
     /\ args.interval < MINUTES_PER_DAY) =>
        /\ args.quality = 3 => (ret.interval = 10 /\ ret.repetition = 0)
        /\ args.quality = 4 => (ret.interval = MINUTES_PER_DAY /\ ret.repetition = 1)
        /\ args.quality = 5 => (ret.interval = 4 * MINUTES_PER_DAY /\ ret.repetition = 1)

\* Scenario B of the specification: a card at step 1 rated Easy.
C8_Witness ==
    /\ Returned
    /\ args.quality = 5
    /\ args.repetition = 0
    /\ args.interval = 10
    /\ ret.interval = 4 * MINUTES_PER_DAY
    /\ ret.repetition = 1

\* The young schedule: repetition 2 and, in days, max(1, interval) for
\* quality 3, max(4, round(interval * ease')) for quality 4,
\* max(interval + 1, round(interval * ease' * 3)) for quality 5.
YoungSchedule ==
    /\ ret.repetition = 2
    /\ args.quality = 3 =>
          ret.interval = (IF args.interval >= MINUTES_PER_DAY
                          THEN args.interval ELSE MINUTES_PER_DAY)
    /\ args.quality = 4 => GrownTo(4 * MINUTES_PER_DAY, 10)
    /\ args.quality = 5 => GrownTo(args.interval + MINUTES_PER_DAY, 30)

\* C9 as stated: for every input with repetition 1, any non-negative
\* interval, and quality 3, 4, 5 the result is the young schedule.
C9_YoungAnyInterval ==
    (Returned /\ args.quality \in 3..5 /\ args.repetition = 1) => YoungSchedule

\* C9 amended: for every input with repetition 1, an interval of at least
\* one day, and quality 3, 4, 5 the result is the young schedule.
C9_YoungFromOneDay ==
    (/\ Returned
     /\ args.quality \in 3..5
     /\ args.repetition = 1
     /\ args.interval >= MINUTES_PER_DAY) => YoungSchedule

\* A young card at 4 days rated Easy: 4 * 2.6 * 3 = 31.2, so 31 days.
C9_Witness ==
    /\ Returned
    /\ args.quality = 5
    /\ args.repetition = 1
    /\ args.interval = 4 * MINUTES_PER_DAY
    /\ args.easeFactor = 250
    /\ ret.interval = 31 * MINUTES_PER_DAY
    /\ ret.repetition = 2

\* The mature schedule: repetition + 1 and, in days,
\* max(interval, round(interval * 1.2)) for quality 3,
\* max(interval + 1, round(interval * ease')) for quality 4,
\* max(interval + 1, round(interval * ease' * 1.3)) for quality 5.
MatureSchedule ==
    /\ ret.repetition = args.repetition + 1
    /\ args.quality = 3 =>
          \E r \in Roundings(args.interval * 12, MINUTES_PER_DAY * 10) :
              ret.interval = (IF args.interval >= r * MINUTES_PER_DAY
                              THEN args.interval ELSE r * MINUTES_PER_DAY)
    /\ args.quality = 4 => GrownTo(args.interval + MINUTES_PER_DAY, 10)
    /\ args.quality = 5 => GrownTo(args.interval + MINUTES_PER_DAY, 13)

\* C10 as stated: for every input with repetition >= 2, any non-negative
\* interval, and quality 3, 4, 5 the result is the mature schedule.
C10_MatureAnyInterval ==
    (Returned /\ args.quality \in 3..5 /\ args.repetition >= 2) => MatureSchedule

\* C10 amended: for every input with repetition >= 2, an interval of at
\* least one day, and quality 3, 4, 5 the result is the mature schedule.
C10_MatureFromOneDay ==
    (/\ Returned
     /\ args.quality \in 3..5
     /\ args.repetition >= 2
     /\ args.interval >= MINUTES_PER_DAY) => MatureSchedule

\* A mature card at 10 days rated Hard: 10 * 1.2 = 12 days.
C10_Witness ==
    /\ Returned
    /\ args.quality = 3
    /\ args.repetition = 2
    /\ args.interval = 10 * MINUTES_PER_DAY
    /\ ret.interval = 12 * MINUTES_PER_DAY
    /\ ret.repetition = 3

(***************************************************************************)
(* reviewCard: lapses, recovery, the next review instant                   *)
(***************************************************************************)
\* C11: for a card with repetition >= 2, a review rated 4 or 5 never
\* stores an interval smaller than the one the card had, lapse recovery
\* included.
C11_PassNeverShrinksMature ==
    [][\A quality \in {4, 5}, tieUp \in BOOLEAN :
         (/\ Reviewable(card)
          /\ card.repetition >= 2
          /\ card' = reviewCard(card, quality, now, tieUp))
         => card'.interval >= card.interval]_vars

\* A mature card that passed again: 4 days, 10 days, 26 days.
C11_Witness ==
    /\ card.repetition = 3
    /\ card.interval = 26 * MINUTES_PER_DAY
    /\ card.easeFactor = 260

\* C12: reviewCard records lapseInterval := the interval before the review
\* exactly when quality < 3 and the card is graduated (interval >= 1 day
\* and repetition >= 1); a failed review of a card that is not graduated
\* keeps the recorded value, and a passed review keeps or clears it.
C12_LapseRecordedOnGraduatedFailure ==
    [][\A quality \in Quality, tieUp \in BOOLEAN :
         (Reviewable(card) /\ card' = reviewCard(card, quality, now, tieUp))
         => LET graduated == card.interval >= MINUTES_PER_DAY /\ card.repetition >= 1
            IN /\ (quality < 3 /\ graduated) => card'.lapseInterval = card.interval
               /\ (quality < 3 /\ ~graduated) => card'.lapseInterval = card.lapseInterval
               /\ quality >= 3 => card'.lapseInterval \in {card.lapseInterval, Undefined}]_vars

\* A lapsed card: the 4-day interval is recorded, the card is back at the
\* first learning step.
C12_Witness ==
    /\ card.lapseInterval = 4 * MINUTES_PER_DAY
    /\ card.repetition = 0
    /\ card.interval = 1

\* C13: with lapseInterval set and a core result that graduates (interval
\* >= 1 day, repetition >= 1), reviewCard stores
\* max(core interval, round(lapseInterval * 0.5)) days and clears
\* lapseInterval; the card (repetition 3, interval 10, ease 2.5) rated 1
\* and then 5 ends at interval 5, repetition 1, lapseInterval unset.
C13_LapseRecoveryHalvesInterval ==
    [][/\ card.lapseInterval # Undefined
          => \A quality \in Quality, tieUp \in BOOLEAN :
               (Reviewable(card) /\ card' = reviewCard(card, quality, now, tieUp))
               => LET core == calculateNextReview(quality, card.repetition,
                                                  card.easeFactor, card.interval, tieUp)
                      half == (card.lapseInterval + MINUTES_PER_DAY)
                                \div (2 * MINUTES_PER_DAY)
                  IN (core.interval >= MINUTES_PER_DAY /\ core.repetition >= 1)
                     => /\ card'.interval = MathMax(core.interval, half * MINUTES_PER_DAY)
                        /\ card'.lapseInterval = Undefined
       /\ (/\ card.repetition = 3
           /\ card.interval = 10 * MINUTES_PER_DAY
           /\ card.easeFactor = 250
           /\ card.lapseInterval = Undefined)
          => \A tieUp \in BOOLEAN :
               card' = reviewCard(card, 1, now, tieUp)
               => LET after == reviewCard(card', 5, now, tieUp)
                  IN /\ after.interval = 5 * MINUTES_PER_DAY
                     /\ after.repetition = 1
                     /\ after.lapseInterval = Undefined]_vars

\* The card of the example after its recovery: lapsed at 10 days, rated
\* Easy, back at 5 days.
C13_Witness ==
    /\ card.interval = 5 * MINUTES_PER_DAY
    /\ card.repetition = 1
    /\ card.lapseInterval = Undefined
    /\ card.easeFactor = 240

\* C14: after reviewCard at instant t, nextReview is strictly later than
\* t: t plus the new interval, in minutes when it is under a day and in
\* days otherwise; the card just reviewed is not due at t.
C14_NextReviewAfterReview ==
    [][ReviewCard =>
         /\ card'.nextReview > now
         /\ card'.nextReview = now + card'.interval
         /\ card'.updatedAt = now
         /\ ~isDue(card', now)]_vars

\* A card reviewed on the second day into a ten-minute step.
C14_Witness ==
    /\ card.updatedAt = MINUTES_PER_DAY
    /\ card.interval = 10
    /\ card.nextReview = MINUTES_PER_DAY + 10

(***************************************************************************)
(* Due cards                                                               *)
(***************************************************************************)
\* C15: getDueCards returns exactly the input cards whose nextReview <=
\* now, none twice, ordered by nextReview ascending, and leaves its input
\* as it was; empty in, empty out.  getDueCardsForDeck returns the same of
\* the cards of the deck (and of the subject, when one is given).
C15_DueCardsExactSorted ==
    [][/\ GetDueCards =>
            LET r == queryResult'.value
            IN /\ cards' = cards
               /\ \A k \in 1..Len(cards) :
                    (cards[k].nextReview <= now) <=> (\E i \in 1..Len(r) : r[i] = cards[k])
               /\ \A i \in 1..Len(r) : \E k \in 1..Len(cards) : r[i] = cards[k]
               /\ \A i, j \in 1..Len(r) : i < j =>
                    (r[i].id # r[j].id /\ r[i].nextReview <= r[j].nextReview)
               /\ cards = <<>> => r = <<>>
       /\ GetDueCardsForDeck =>
            LET r == queryResult'.value
                deckId == queryResult'.args[1]
                subjectFilter == queryResult'.args[2]
                wanted(c) ==
                  /\ c.deckId = deckId
                  /\ subjectFilter # "" => c.subject = subjectFilter
                  /\ c.nextReview <= now
            IN /\ cards' = cards
               /\ \A k \in 1..Len(cards) :
                    wanted(cards[k]) <=> (\E i \in 1..Len(r) : r[i] = cards[k])
               /\ \A i \in 1..Len(r) : \E k \in 1..Len(cards) : r[i] = cards[k]
               /\ \A i, j \in 1..Len(r) : i < j =>
                    (r[i].id # r[j].id /\ r[i].nextReview <= r[j].nextReview)]_vars

\* Three cards, one not due; the two due ones come out in the other order.
C15_Witness ==
    /\ queryResult.query = "getDueCards"
    /\ Len(cards) = 3
    /\ Len(queryResult.value) = 2
    /\ queryResult.value[1].id > queryResult.value[2].id
    /\ queryResult.value[1].nextReview < now
    /\ queryResult.value[2].nextReview = now

\* C16: getDueCards is idempotent: applied to its own result it returns
\* that result, cards of equal nextReview in the same order.
C16_DueCardsIdempotent ==
    [][GetDueCards =>
         /\ getDueCards(queryResult'.value, now) = queryResult'.value
         /\ getDueCards(getDueCards(cards, now), now) = getDueCards(cards, now)]_vars

\* A result in which two cards have the same nextReview.
C16_Witness ==
    /\ queryResult.query = "getDueCards"
    /\ Len(queryResult.value) = 3
    /\ queryResult.value[2].nextReview = queryResult.value[3].nextReview
    /\ queryResult.value[2].repetition # queryResult.value[3].repetition

(***************************************************************************)
(* Exam statistics                                                         *)
(***************************************************************************)
\* The values Math.ceil(num / den) can take: the least whole number not
\* below the quotient and, off an exact positive whole number, the next.
Ceilings(num, den) ==
    {c \in (num \div den)..((num \div den) + 1) :
       /\ c * den >= num
       /\ \/ (c - 1) * den < num
          \/ ((c - 1) * den = num /\ num > 0)}

\* The quota the statistics of exam i should show, from the statistics
\* themselves and the weights: with urgency = weight / daysLeft and
\* share = urgency / (sum of the urgencies, or 1 if it is 0),
\* max(5, ceil((remaining / daysLeft) * share * number of exams)).
\* Both sides of the quotient are multiplied by the product of the
\* daysLeft to stay in whole numbers.
ExpectedQuotas(stats, i) ==
    LET n == Len(stats)
        common == seqProduct([j \in 1..n |-> stats[j].daysLeft])
        total == seqSum([j \in 1..n |-> exams[j].weight * (common \div stats[j].daysLeft)])
        remaining == stats[i].totalCards - stats[i].masteredCards
        num == remaining * exams[i].weight * n * (IF total = 0 THEN 1 ELSE common)
        den == stats[i].daysLeft * stats[i].daysLeft * (IF total = 0 THEN 10 ELSE total)
    IN {MathMax(5, c) : c \in Ceilings(num, den)}

\* C17: getExamStats gives each exam
\* dailyQuota = max(5, ceil((remaining / daysLeft) * share * exams.length));
\* goals A (10 days, weight 1, 50 remaining) and B (5 days, weight 2,
\* 20 remaining) get the quotas 5 and 7.
C17_DailyQuotaFormula ==
    queryResult.query = "getExamStats" =>
      LET stats == queryResult.value
      IN /\ Len(stats) = Len(exams)
         /\ \A i \in 1..Len(stats) : stats[i].dailyQuota \in ExpectedQuotas(stats, i)
         /\ (/\ Len(stats) = 2
             /\ \A i \in 1..2 :
                  /\ stats[i].daysLeft = TwoGoals.days[i]
                  /\ exams[i].weight = TwoGoals.weight[i]
                  /\ stats[i].totalCards - stats[i].masteredCards = TwoGoals.remaining[i])
            => (stats[1].dailyQuota = 5 /\ stats[2].dailyQuota = 7)

\* The statistics of goals A and B.
C17_Witness ==
    /\ queryResult.query = "getExamStats"
    /\ Len(queryResult.value) = 2
    /\ queryResult.value[1].daysLeft = 10
    /\ queryResult.value[1].totalCards - queryResult.value[1].masteredCards = 50
    /\ queryResult.value[2].daysLeft = 5
    /\ queryResult.value[2].totalCards - queryResult.value[2].masteredCards = 20
    /\ exams[1].weight = 10
    /\ exams[2].weight = 20
    /\ queryResult.value[2].dailyQuota = 7

\* C18: getExamStats returns statistics for every exam, with
\* dailyQuota >= 5 and daysLeft >= 1: deadline today or past, no matching
\* card, every card mastered, every urgency 0 included.
C18_QuotaAndDaysClamped ==
    queryResult.query = "getExamStats" =>
      /\ Len(queryResult.value) = Len(exams)
      /\ \A i \in 1..Len(queryResult.value) :
           /\ queryResult.value[i].dailyQuota >= 5
           /\ queryResult.value[i].daysLeft >= 1

\* The positions of the cards of exam i: the cards in a deck whose name
\* contains the pattern of the exam.
CardsOfExam(i) ==
    {k \in 1..Len(cards) :
       /\ exams[i].deckPattern # <<>>
       /\ \E d \in 1..Len(decks) :
            /\ decks[d].id = cards[k].deckId
            /\ stringIncludes(decks[d].name, exams[i].deckPattern)}

\* C19: in getExamStats, masteredCards counts the cards of the exam with
\* repetition >= 3 and dueCards those with nextReview <= now;
\* 0 <= masteredCards <= totalCards, so remaining = totalCards -
\* masteredCards >= 0; a failed review of a mastered card takes it out of
\* masteredCards.  (A step that leaves the cards alone is a call of
\* getExamStats, and queryResult' is what it returned.)
C19_MasteredAndDueCounts ==
    [][/\ (cards' = cards /\ queryResult'.query = "getExamStats") =>
            \A i \in 1..Len(exams) :
              LET stat == queryResult'.value[i]
              IN /\ stat.totalCards = Cardinality(CardsOfExam(i))
                 /\ stat.masteredCards =
                      Cardinality({k \in CardsOfExam(i) : cards[k].repetition >= 3})
                 /\ stat.dueCards =
                      Cardinality({k \in CardsOfExam(i) : cards[k].nextReview <= now})
                 /\ 0 <= stat.masteredCards
                 /\ stat.masteredCards <= stat.totalCards
       /\ cards' # cards =>
            \A k \in 1..Len(cards), quality \in 0..2, tieUp \in BOOLEAN :
              (/\ cards[k].repetition >= 3
               /\ cards' = reviewCardAction(cards, cards[k].id, quality, now, tieUp))
              => \A i \in 1..Len(exams) :
                   examRawData(exams[i], decks, cards', now).masteredCards
                     = examRawData(exams[i], decks, cards, now).masteredCards
                       - (IF k \in CardsOfExam(i) THEN 1 ELSE 0)]_vars

\* The statistics after a mastered card of the exam was failed: it lapsed
\* from 10 days and is no longer counted as mastered.
C19_Witness ==
    /\ queryResult.query = "getExamStats"
    /\ \E k \in 1..Len(cards), i \in 1..Len(exams) :
         /\ k \in CardsOfExam(i)
         /\ cards[k].updatedAt = now
         /\ cards[k].lapseInterval = 10 * MINUTES_PER_DAY
         /\ cards[k].repetition = 0
         /\ queryResult.value[i].totalCards = 2
         /\ queryResult.value[i].masteredCards = 1

(***************************************************************************)
(* The study queue without exams                                           *)
(***************************************************************************)
\* C20: with no exams, getSmartStudyQueue returns exactly
\* getDueCards(all cards).
C20_QueueWithoutExams ==
    [][(GetSmartStudyQueue /\ exams = <<>>) =>
         /\ queryResult'.value = getDueCards(cards, now)
         /\ \A k \in 1..Len(cards) :
              (cards[k].nextReview <= now)
                <=> (\E i \in 1..Len(queryResult'.value) : queryResult'.value[i] = cards[k])]_vars

\* A queue of three due cards in a store without exams.
C20_Witness ==
    /\ queryResult.query = "getSmartStudyQueue"
    /\ exams = <<>>
    /\ Len(cards) = 3
    /\ Len(queryResult.value) = 3

(***************************************************************************)
(* Properties of the study queue (specification SpecQueue)                 *)
(***************************************************************************)
\* The value of the last query, when it was getSmartStudyQueue.
QueueReturned == queryResult.query = "getSmartStudyQueue"

\* The due cards of exam i, as positions of the store's cards: the cards
\* of the decks whose name contains the exam's pattern, due at the instant.
DueOf(i) ==
    {k \in 1..Len(cards) :
       /\ cards[k].nextReview <= now
       /\ \E d \in 1..Len(decks) :
            /\ decks[d].id = cards[k].deckId
            /\ exams[i].deckPattern # <<>>
            /\ stringIncludes(decks[d].name, exams[i].deckPattern)}

\* The priority score the feed gives card k for exam i: that of the last
\* recommendation for the exam's name and the card's subject, 0 without.
ScoreOf(i, k) ==
    LET mine == SelectSeq(weakPointRecommendations,
                          LAMBDA r : r.examName = exams[i].name
                                     /\ r.subject = cards[k].subject)
    IN IF mine = <<>> THEN 0 ELSE mine[Len(mine)].priorityScore

\* Card k belongs to a priority subject of exam i.
PriorityOf(i, k) ==
    cards[k].subject \in {exams[i].prioritySubjects[j] :
                            j \in 1..Len(exams[i].prioritySubjects)}

\* The tier of card k for exam i.
TierOf(i, k) ==
    CASE PriorityOf(i, k) /\ ScoreOf(i, k) > 0 -> 3
      [] PriorityOf(i, k) /\ ~(ScoreOf(i, k) > 0) -> 2
      [] ~PriorityOf(i, k) /\ ScoreOf(i, k) > 0 -> 1
      [] OTHER -> 0

\* Card a ranks strictly ahead of card b for exam i: higher tier, then
\* higher score, then earlier nextReview.
RanksAhead(i, a, b) ==
    \/ TierOf(i, a) > TierOf(i, b)
    \/ /\ TierOf(i, a) = TierOf(i, b)
       /\ ScoreOf(i, a) > ScoreOf(i, b)
    \/ /\ TierOf(i, a) = TierOf(i, b)
       /\ ScoreOf(i, a) = ScoreOf(i, b)
       /\ cards[a].nextReview < cards[b].nextReview

\* The number of cards each exam contributes: its due cards, at most the
\* daily quota getExamStats gives it on this store.
TakenCounts ==
    LET n == Len(exams)
        examStats == getExamStats(exams, decks, cards, now, ceilsUp)
    IN SubSeq([i \in 1..n |->
                 IF Cardinality(DueOf(i)) < examStats[i].dailyQuota
                 THEN Cardinality(DueOf(i))
                 ELSE examStats[i].dailyQuota], 1, n)

\* The slots of the queue: <<r, i>> is the r-th card exam i contributes.
QueueSlots(taken) ==
    UNION {{<<r, i>> : r \in 1..taken[i]} : i \in 1..Len(taken)}

\* Round-robin order of the slots: by r, then by exam.
SlotBefore(s, t) == s[1] < t[1] \/ (s[1] = t[1] /\ s[2] < t[2])

\* The slots in round-robin order: the slot of every position of the queue.
SlotSeq(taken) ==
    LET slots == QueueSlots(taken)
        total == Cardinality(slots)
    IN SubSeq([p \in 1..total |->
                 CHOOSE s \in slots :
                   Cardinality({t \in slots : SlotBefore(t, s)}) = p - 1],
              1, total)

\* The due cards of every exam.
DueSets == SubSeq([i \in 1..Len(exams) |-> DueOf(i)], 1, Len(exams))

\* The r-th of the due cards due[i] of exam i in ranking order, cards the ranking
\* does not separate in the order of the store.
RankedDue(due, i, r) ==
    CHOOSE k \in due[i] :
      Cardinality({h \in due[i] : RanksAhead(i, h, k)
                                    \/ (~RanksAhead(i, k, h) /\ h < k)}) = r - 1

\* C21: within one exam, the cards of the queue appear in the order tier
\* descending, then weak-point priority score descending, then nextReview
\* ascending, the tier being 3 for a priority subject with a positive weak
\* score, 2 for a priority subject only, 1 for a positive weak score only
\* and 0 otherwise: no card of the exam stands behind a card of the same
\* exam it ranks ahead of.  (A queue entry belongs to the exam whose
\* bucket contributed it.)
C21_OrderWithinExam ==
    QueueReturned =>
      LET queue == queryResult.value
          due == DueSets
          slot == SlotSeq(TakenCounts)
      IN /\ Len(queue) = Len(slot)
         /\ \A p \in 1..Len(queue) : queue[p].id \in due[slot[p][2]]
         /\ \A p, q \in 1..Len(queue) :
              (p < q /\ slot[p][2] = slot[q][2])
                => ~RanksAhead(slot[p][2], queue[q].id, queue[p].id)

\* An exam contributes cards of all four tiers to the queue, and an exam
\* contributes two cards of the same tier with different scores.
C21_Witness ==
    /\ QueueReturned
    /\ LET queue == queryResult.value
           due == DueSets
           slot == SlotSeq(TakenCounts)
       IN /\ \E i \in 1..Len(exams) : \A tier \in 0..3 :
               \E p \in 1..Len(queue) :
                 slot[p][2] = i /\ TierOf(i, queue[p].id) = tier
          /\ \E p, q \in 1..Len(queue) :
               /\ p < q
               /\ slot[p][2] = slot[q][2]
               /\ TierOf(slot[p][2], queue[p].id) = TierOf(slot[p][2], queue[q].id)
               /\ ScoreOf(slot[p][2], queue[p].id) > ScoreOf(slot[p][2], queue[q].id)

\* The positions of the queue whose card exam i contributed.
PositionsOf(slot, i) == {p \in 1..Len(slot) : slot[p][2] = i}

\* No due card of exam i is a due card of another exam.
Unshared(due, i) == \A j \in 1..Len(due) : j # i => due[i] \cap due[j] = {}

\* C22: for each exam the queue holds at most dailyQuota of its cards, and
\* they are the first dailyQuota cards of the exam's sorted due list: no
\* due card of the exam that was left out ranks ahead of one that was
\* taken.
C22_QuotaTruncation ==
    QueueReturned =>
      LET queue == queryResult.value
          due == DueSets
          slot == SlotSeq(TakenCounts)
          examStats == getExamStats(exams, decks, cards, now, ceilsUp)
      IN /\ Len(queue) = Len(slot)
         /\ \A i \in 1..Len(exams) :
              LET taken == {queue[p].id : p \in PositionsOf(slot, i)}
              IN /\ Cardinality(PositionsOf(slot, i)) <= examStats[i].dailyQuota
                 /\ Cardinality(taken) = Cardinality(PositionsOf(slot, i))
                 /\ taken = {RankedDue(due, i, r) : r \in 1..Cardinality(taken)}
                 /\ \A c \in due[i] \ taken : \A e \in taken : ~RanksAhead(i, c, e)
                 /\ Unshared(due, i) =>
                      /\ taken = {queue[p].id : p \in 1..Len(queue)} \cap due[i]
                      /\ Cardinality({p \in 1..Len(queue) : queue[p].id \in due[i]})
                           <= examStats[i].dailyQuota

\* An exam has more due cards than its quota, and the queue holds quota
\* cards of it, leaving out a due card.
C22_Witness ==
    /\ QueueReturned
    /\ LET queue == queryResult.value
           due == DueSets
           examStats == getExamStats(exams, decks, cards, now, ceilsUp)
       IN \E i \in 1..Len(exams) :
            /\ Unshared(due, i)
            /\ Cardinality(due[i]) > examStats[i].dailyQuota
            /\ Cardinality({p \in 1..Len(queue) : queue[p].id \in due[i]})
                 = examStats[i].dailyQuota
            /\ \E c \in due[i] : \A p \in 1..Len(queue) : queue[p].id # c

\* C23: the queue is the round-robin interleaving of the exams' truncated
\* lists in exam order: position by position it holds the r-th card of
\* exam i, the slots <<r, i>> ordered by r and then by exam, an exam that
\* has no r-th card being skipped; so the k-th card of any exam precedes
\* the (k+1)-th card of every exam, and each exam's own order is kept.
C23_RoundRobinInterleaving ==
    QueueReturned =>
      LET queue == queryResult.value
          due == DueSets
          slot == SlotSeq(TakenCounts)
      IN /\ Len(queue) = Len(slot)
         /\ \A p \in 1..Len(queue) :
              queue[p] = cards[RankedDue(due, slot[p][2], slot[p][1])]
         /\ \A p, q \in 1..Len(slot) :
              p < q => /\ slot[p][1] <= slot[q][1]
                       /\ slot[p][1] = slot[q][1] => slot[p][2] < slot[q][2]

\* Two exams contribute different numbers of cards, both at least two:
\* the queue alternates, then goes on with the longer list alone.
C23_Witness ==
    /\ QueueReturned
    /\ LET queue == queryResult.value
           due == DueSets
           taken == TakenCounts
       IN /\ Len(queue) = seqSum(taken)
          /\ \E i, j \in 1..Len(exams) :
               /\ i < j
               /\ taken[i] >= 2
               /\ taken[j] > taken[i]
               /\ queue[Len(queue)].id \in due[j]

\* C24: with G exams, every exam that has a due card has its top-ranked
\* card within the first G positions of the queue, and in every prefix of
\* the queue the numbers of cards of two exams that both still have cards
\* to come differ by at most 1.  (The cards of an exam are counted in the
\* queue where no other exam shares its due cards.)
C24_FairPrefixes ==
    QueueReturned =>
      LET queue == queryResult.value
          due == DueSets
          taken == TakenCounts
          count(i, m) == Cardinality({p \in 1..m : queue[p].id \in due[i]})
      IN /\ \A i \in 1..Len(exams) :
              due[i] # {} =>
                \E p \in 1..Len(exams) :
                  p <= Len(queue) /\ queue[p].id = RankedDue(due, i, 1)
         /\ \A i, j \in 1..Len(exams) :
              (Unshared(due, i) /\ Unshared(due, j)) =>
                \A m \in 0..Len(queue) :
                  (count(i, m) < taken[i] /\ count(j, m) < taken[j])
                    => /\ count(i, m) - count(j, m) <= 1
                       /\ count(j, m) - count(i, m) <= 1

\* Two exams with due cards and different quotas, the larger quota first:
\* the second exam's top card is the second card of the queue.
C24_Witness ==
    /\ QueueReturned
    /\ LET queue == queryResult.value
           due == DueSets
           taken == TakenCounts
       IN /\ Len(exams) >= 2
          /\ Unshared(due, 1) /\ Unshared(due, 2)
          /\ taken[1] > taken[2]
          /\ taken[2] >= 2
          /\ Len(queue) >= 2
          /\ queue[2].id = RankedDue(due, 2, 1)

\* C25: when the feed of weak-point recommendations is empty, or has no
\* entry for an exam's name, getSmartStudyQueue still returns the queue:
\* every weak score of the exam's cards is 0, their tiers are 2 and 0
\* only, and the exam's cards come with the priority subjects first and
\* by nextReview ascending within each of the two groups.
C25_NoRecommendations ==
    QueueReturned =>
      LET queue == queryResult.value
          due == DueSets
          slot == SlotSeq(TakenCounts)
      IN /\ Len(queue) = Len(slot)
         /\ \A i \in 1..Len(exams) :
              (\A k \in 1..Len(weakPointRecommendations) :
                 weakPointRecommendations[k].examName # exams[i].name)
              => /\ \A k \in due[i] :
                      /\ weakScore(exams[i], weakPointRecommendations,
                                   cards[k].subject) = 0
                      /\ cardTier(exams[i], weakPointRecommendations, cards[k])
                           \in {0, 2}
                      /\ cardTier(exams[i], weakPointRecommendations, cards[k]) = 2
                           <=> PriorityOf(i, k)
                 /\ \A p, q \in PositionsOf(slot, i) :
                      p < q =>
                        /\ PriorityOf(i, queue[q].id) => PriorityOf(i, queue[p].id)
                        /\ PriorityOf(i, queue[p].id) = PriorityOf(i, queue[q].id)
                             => queue[p].nextReview <= queue[q].nextReview

\* The feed has entries, none for the name of an exam whose cards of
\* priority subjects and of other subjects are in the queue.
C25_Witness ==
    /\ QueueReturned
    /\ weakPointRecommendations # <<>>
    /\ LET queue == queryResult.value
           due == DueSets
           slot == SlotSeq(TakenCounts)
       IN \E i \in 1..Len(exams) :
            /\ \A k \in 1..Len(weakPointRecommendations) :
                 weakPointRecommendations[k].examName # exams[i].name
            /\ \E p, q \in PositionsOf(slot, i) :
                 /\ PriorityOf(i, queue[p].id)
                 /\ ~PriorityOf(i, queue[q].id)
            /\ \E p, q \in PositionsOf(slot, i) :
                 /\ p < q
                 /\ PriorityOf(i, queue[p].id) = PriorityOf(i, queue[q].id)
                 /\ queue[p].nextReview < queue[q].nextReview

SameIdentity(a, b) ==
    /\ a.id = b.id
    /\ a.deckId = b.deckId
    /\ a.subject = b.subject
    /\ a.correctRate = b.correctRate
    /\ a.createdAt = b.createdAt

\* C27: reviewCardAction(cardId, quality) applies one review transition to
\* the one card with that id: of that card only interval, repetition,
\* easeFactor, lapseInterval, nextReview and updatedAt may change; every
\* other card, the number and the order of the cards, the decks and the
\* exams stay as they are; an id that no card has changes no card.
C27_ReviewChangesOneCard ==
    [][/\ cards' # cards
         => /\ Len(cards') = Len(cards)
            /\ decks' = decks
            /\ exams' = exams
            /\ weakPointRecommendations' = weakPointRecommendations
            /\ \E k \in 1..Len(cards) :
                 /\ \A j \in 1..Len(cards) : j # k => cards'[j] = cards[j]
                 /\ SameIdentity(cards'[k], cards[k])
                 /\ DOMAIN cards'[k] = DOMAIN cards[k]
                 /\ \E quality \in Quality, tieUp \in BOOLEAN :
                      cards'[k] = reviewCard(cards[k], quality, now, tieUp)
       /\ \A quality \in Quality, tieUp \in BOOLEAN :
            reviewCardAction(cards, UnknownCardId, quality, now, tieUp) = cards]_vars

\* One of two cards has been reviewed, the one that is second in the
\* store; the other one is as it was.
C27_Witness ==
    /\ Len(cards) = 2
    /\ cards[2].updatedAt = now
    /\ cards[2].createdAt < now
    /\ cards[1].updatedAt < now
    /\ Len(exams) >= 1

(***************************************************************************)
(* The clock (specification Spec)                                          *)
(***************************************************************************)
\* The instants of the clock of Spec.
ClockInstants == {d * MINUTES_PER_DAY : d \in 0..MaxClockDays}

\* C28: the result of the review wrapper is a function of its explicit
\* arguments only: the call reviewCard(card, quality) returns the same card
\* at whatever wall-clock instant it is made.  (Stated for reviewCard, whose
\* explicit arguments are the card and the quality.)
C28_IndependentOfWallClock ==
    [][card' # card
         => \A quality \in Quality, tieUp \in BOOLEAN :
              card' = reviewCard(card, quality, now, tieUp)
                => \A at \in ClockInstants :
                     reviewCard(card, quality, at, tieUp) = card']_vars

(***************************************************************************)
(* Termination (specification SpecCalls)                                   *)
(***************************************************************************)
\* C29: every call terminates: calculateNextReview returns a scheduling
\* state for every quality in 0..5 and the non-negative arguments of the
\* call, and the round-robin loop of getSmartStudyQueue ends after at most
\* as many passes as the longest bucket has cards, plus one, having
\* queued every card of the buckets.
C29_CallsTerminate ==
    /\ (outcome = "pending" /\ args.quality \in Quality) => ENABLED Call
    /\ (outcome = "returned" /\ args.quality \in Quality)
         => /\ ret.interval \in Nat
            /\ ret.repetition \in Nat
            /\ ret.easeFactor \in Nat
    /\ (QueueReturned /\ Len(exams) > 0)
         => LET taken == TakenCounts
                longest == CHOOSE m \in {taken[i] : i \in 1..Len(taken)} :
                             \A i \in 1..Len(taken) : taken[i] <= m
                buckets == examBuckets(getExamStats(exams, decks, cards, now, ceilsUp),
                                       exams, decks, cards,
                                       weakPointRecommendations, now)
            IN /\ roundRobinPasses(buckets, 1) <= longest + 1
               /\ Len(queryResult.value) = seqSum(taken)

\* The queue of two exams with lists of different lengths has been built:
\* the loop made as many passes as the longer list has cards, and one.
C29_Witness ==
    /\ QueueReturned
    /\ Len(exams) >= 2
    /\ LET taken == TakenCounts
           buckets == examBuckets(getExamStats(exams, decks, cards, now, ceilsUp),
                                  exams, decks, cards,
                                  weakPointRecommendations, now)
       IN /\ taken[1] >= 2
          /\ taken[2] > taken[1]
          /\ roundRobinPasses(buckets, 1) = taken[2] + 1
          /\ Len(queryResult.value) = taken[1] + taken[2]

(***************************************************************************)
(* Properties of new cards (specification SpecCreate)                      *)
(***************************************************************************)
\* The initial ease factor of a card, by its correctRate.
InitialEase(correctRate) ==
    CASE correctRate = Undefined -> 250
      [] correctRate # Undefined /\ correctRate >= 80 -> 270
      [] correctRate \in 60..79 -> 250
      [] correctRate \in 40..59 -> 230
      [] correctRate \in 0..39 -> 200

\* C30: a card created by addCard or importCards (both through
\* createCard) starts with interval 0, repetition 0, no lapseInterval and
\* nextReview at the instant of its creation, so that it is due at once;
\* its easeFactor is 2.5 without a correctRate, and 2.7, 2.5, 2.3 or 2.0
\* for a correctRate >= 80, >= 60, >= 40 or < 40.
C30_NewCardState ==
    [][Len(cards') > Len(cards)
         => /\ SubSeq(cards', 1, Len(cards)) = cards
            /\ \A k \in (Len(cards) + 1)..Len(cards') :
                 /\ cards'[k].interval = 0
                 /\ cards'[k].repetition = 0
                 /\ cards'[k].lapseInterval = Undefined
                 /\ cards'[k].nextReview = now
                 /\ cards'[k].createdAt = now
                 /\ cards'[k].easeFactor = InitialEase(cards'[k].correctRate)
                 /\ \E p \in 1..Len(getDueCards(cards', now)) :
                      getDueCards(cards', now)[p] = cards'[k]]_vars

\* Two cards were created on the second day, with a correctRate of 80
\* and of 40: ease factors 2.7 and 2.3.
C30_Witness ==
    /\ Len(cards) = 2
    /\ cards[1].correctRate = 80 /\ cards[1].easeFactor = 270
    /\ cards[2].correctRate = 40 /\ cards[2].easeFactor = 230
    /\ cards[2].nextReview = MINUTES_PER_DAY
    /\ cards[2].interval = 0

\* C31: in every state reachable from a new card by reviewCard calls,
\* repetition = 0 exactly when interval < 1 day; so the learning test of
\* the code (repetition = 0 or interval < 1 day) and the conjunctive one
\* (repetition = 0 and interval < 1 day) agree on every reachable card.
C31_LearningIffSubDay ==
    /\ card.repetition = 0 <=> card.interval < MINUTES_PER_DAY
    /\ isLearning(card.repetition, card.interval)
         <=> (card.repetition = 0 /\ card.interval < MINUTES_PER_DAY)

\* A card that graduated through both learning steps, was reviewed again
\* and then failed: back at repetition 0 with a 10-minute interval.
C31_Witness ==
    /\ card.repetition = 0
    /\ card.interval = 10
    /\ card.lapseInterval >= 4 * MINUTES_PER_DAY
    /\ card.updatedAt > card.createdAt

\* C32: a card carries a lapseInterval only while it is relearning
\* (repetition = 0 and interval < 1 day), and the value is then at least
\* 1 day; no graduated card (repetition >= 1) carries one, and the review
\* that applies the recovery clears it.
C32_LapseOnlyWhileRelearning ==
    /\ card.lapseInterval # Undefined
         => /\ card.repetition = 0
            /\ card.interval < MINUTES_PER_DAY
            /\ card.lapseInterval >= MINUTES_PER_DAY
    /\ card.repetition >= 1 => card.lapseInterval = Undefined

\* A card that lapsed from 5 days, relearned and graduated again: the
\* recovery raised its interval to 3 days and the lapse is forgotten.
C32_Witness ==
    /\ card.repetition = 1
    /\ card.interval = 3 * MINUTES_PER_DAY
    /\ card.lapseInterval = Undefined
    /\ card.easeFactor < 200

\* C33: a graduated card that fails records its interval L; while it is
\* relearning, every review rated 3 or less leaves lapseInterval = L and
\* the card at repetition 0, every review that leaves it at repetition 0
\* keeps L, and the first review that graduates it again stores an
\* interval of at least max(1, round(L / 2)) days and clears the lapse.
C33_LapseKeptUntilRegraduation ==
    [][\A quality \in Quality, tieUp \in BOOLEAN :
         (Reviewable(card) /\ card' = reviewCard(card, quality, now, tieUp))
         => /\ (card.repetition >= 1 /\ quality < 3)
                 => card'.lapseInterval = card.interval
            /\ card.lapseInterval # Undefined
                 => LET L == card.lapseInterval
                        half == (L + MINUTES_PER_DAY) \div (2 * MINUTES_PER_DAY)
                    IN /\ quality <= 3
                            => /\ card'.lapseInterval = L
                               /\ card'.repetition = 0
                       /\ card'.repetition = 0 => card'.lapseInterval = L
                       /\ card'.repetition >= 1
                            => /\ card'.interval >= MINUTES_PER_DAY
                               /\ card'.interval >= half * MINUTES_PER_DAY
                               /\ card'.lapseInterval = Undefined]_vars

\* A card that lapsed from 10 days, failed again while relearning and
\* was then rated Good twice: it graduates at 5 days, not at 1.
C33_Witness ==
    /\ card.repetition = 1
    /\ card.interval = 5 * MINUTES_PER_DAY
    /\ card.lapseInterval = Undefined
    /\ card.easeFactor <= 200

\* C34: in every reachable state the interval is 0, exactly 1 minute,
\* exactly 10 minutes, or a whole positive number of days.
C34_IntervalShapes ==
    \/ card.interval \in {0, 1, 10}
    \/ /\ card.interval >= MINUTES_PER_DAY
       /\ card.interval % MINUTES_PER_DAY = 0

\* A card that lapsed from 5 days and graduated again at 3 days: half of
\* 5 days, rounded to whole days.
C34_Witness ==
    /\ card.interval = 3 * MINUTES_PER_DAY
    /\ card.repetition = 1
    /\ card.updatedAt > card.createdAt
    /\ card.easeFactor >= 200

\* The interval calculateNextReview returns for the card under a rating.
NextInterval(quality, tieUp) ==
    calculateNextReview(quality, card.repetition, card.easeFactor,
                        card.interval, tieUp).interval

\* For each rating 0..5 (at index rating + 1), the intervals returned for
\* the card, over both roundings of an exact tie.
NextIntervals ==
    SubSeq([k \in 1..6 |-> {NextInterval(k - 1, FALSE), NextInterval(k - 1, TRUE)}], 1, 6)

\* C35 as stated: on every reachable card and for every pair of ratings
\* q1 < q2, the interval returned for q2 is at least the interval
\* returned for q1.
C35_MonotoneInQuality ==
    LET returned == NextIntervals
    IN \A q1, q2 \in Quality :
         q1 < q2 => \A i1 \in returned[q1 + 1], i2 \in returned[q2 + 1] : i2 >= i1

\* C35: on every reachable card the interval grows with the rating, except
\* at learning step 0, where rating 2 returns 10 minutes and rating 3
\* returns 1 minute; every other pair q1 < q2 is ordered there too.
C35_MonotoneExceptHardAtStep0 ==
    LET returned == NextIntervals
    IN \A q1, q2 \in Quality :
         q1 < q2
         => IF isStep0(card.repetition, card.interval) /\ q1 = 2 /\ q2 = 3
            THEN returned[q1 + 1] = {10} /\ returned[q2 + 1] = {1}
            ELSE \A i1 \in returned[q1 + 1], i2 \in returned[q2 + 1] : i2 >= i1

\* A mature card whose three passing ratings return three different
\* intervals, each longer than the one before.
C35_Witness ==
    /\ card.repetition >= 2
    /\ card.interval >= 5 * MINUTES_PER_DAY
    /\ \A t \in BOOLEAN :
         /\ NextInterval(2, t) < NextInterval(3, t)
         /\ NextInterval(3, t) < NextInterval(4, t)
         /\ NextInterval(4, t) < NextInterval(5, t)

\* The review moved a learning card forward: it graduated, or it left
\* step 0 (interval under 5 minutes) for step 1.
MovedForward ==
    \/ card'.repetition >= 1
    \/ isStep0(card.repetition, card.interval)
         /\ ~isStep0(card'.repetition, card'.interval)

\* C36 as stated: a learning card (repetition 0) rated 3 stays at
\* repetition 0 with 1 minute at step 0 and 10 minutes at step 1, and
\* only a rating of 4 or 5 moves it forward.
C36_OnlyGoodOrEasyAdvance ==
    [][\A quality \in Quality, tieUp \in BOOLEAN :
         (/\ Reviewable(card)
          /\ card.repetition = 0
          /\ card' = reviewCard(card, quality, now, tieUp))
         => /\ quality = 3
                 => /\ card'.repetition = 0
                    /\ card'.interval = IF card.interval < 5 THEN 1 ELSE 10
            /\ MovedForward => quality \in {4, 5}]_vars

\* C36: a learning card (repetition 0) rated 3 stays at repetition 0 with
\* 1 minute at step 0 and 10 minutes at step 1, so a card rated 3 only
\* never graduates; a rating of 4 or 5 moves it forward, and so does a
\* rating of 2 at step 0, which sets the 10-minute interval of step 1
\* with repetition 0; no other rating does.
C36_HardRepeatsStep ==
    [][\A quality \in Quality, tieUp \in BOOLEAN :
         (/\ Reviewable(card)
          /\ card.repetition = 0
          /\ card' = reviewCard(card, quality, now, tieUp))
         => LET step0 == isStep0(card.repetition, card.interval)
            IN /\ quality = 3
                    => /\ card'.repetition = 0
                       /\ card'.interval = IF card.interval < 5 THEN 1 ELSE 10
                       /\ ~MovedForward
               /\ quality \in {4, 5} => MovedForward
               /\ (quality = 2 /\ step0)
                    => /\ MovedForward
                       /\ card'.repetition = 0
                       /\ card'.interval = 10
               /\ MovedForward
                    => quality \in {4, 5} \/ (quality = 2 /\ step0)]_vars

\* A new card rated 3 at step 0, then 4, then 3 at step 1: still at
\* repetition 0 with the 10-minute interval.
C36_Witness ==
    /\ card.repetition = 0
    /\ card.interval = 10
    /\ card.easeFactor = 222
    /\ card.correctRate = Undefined
    /\ card.lapseInterval = Undefined

(***************************************************************************)
(* Which cards the study queue holds (SpecQueue, SpecMatch)                *)
(***************************************************************************)
\* C37 as stated: the queue getSmartStudyQueue returns holds no card more
\* than once, also when a deck's name contains the pattern of more than
\* one exam.
C37_NoCardTwice ==
    QueueReturned
    => \A p, q \in 1..Len(queryResult.value) :
         p < q => queryResult.value[p].id # queryResult.value[q].id

\* C38: with at least one exam, the queue has as many cards as the sum
\* over the exams of min(due cards in the decks matching the exam's
\* pattern, dailyQuota); every queued card is a card of the store that is
\* due and lies in a deck matching the non-empty pattern of some exam, so
\* a due card of a deck no exam matches is not queued.
C38_QueueFromMatchingDecks ==
    [][(exams' = exams /\ GetSmartStudyQueue /\ Len(exams) >= 1)
         => LET queue == queryResult'.value
                due == DueSets
                taken == TakenCounts
            IN /\ Len(queue) = seqSum(taken)
               /\ \A p \in 1..Len(queue) :
                    \E i \in 1..Len(exams) : \E k \in due[i] : queue[p] = cards[k]
               /\ \A k \in 1..Len(cards) :
                    (\A i \in 1..Len(exams) : k \notin due[i])
                    => \A p \in 1..Len(queue) : queue[p].id # cards[k].id]_vars

\* Two exams, the first with the empty pattern and the second on "B":
\* deck "A" has due cards and matches no exam, the second exam has more
\* due cards than its quota, and the queue holds exactly that quota.
C38_Witness ==
    /\ QueueReturned
    /\ Len(exams) = 2
    /\ exams[1].deckPattern = <<>>
    /\ exams[2].deckPattern = <<"B">>
    /\ \E k \in 1..Len(cards) : cards[k].deckId = "A" /\ cards[k].nextReview <= now
    /\ queryResult.value = getSmartStudyQueue(exams, decks, cards,
                                              weakPointRecommendations, now, ceilsUp)
    /\ LET taken == TakenCounts
       IN /\ taken[1] = 0
          /\ taken[2] < Cardinality(DueOf(2))
          /\ Len(queryResult.value) = taken[2]

(***************************************************************************)
(* The login sync (specification SpecSync)                                 *)
(***************************************************************************)
\* The step in which doSync sets the merged state.
MergeStep == sync.pc = "fetched" /\ sync'.pc = "merged"

\* The ids of a list of decks, cards or rows.
IdsOf(items) == {items[k].id : k \in 1..Len(items)}

\* C39 as stated: what reviewCardAction wrote while the login sync was in
\* flight is still there after the merge: every card the store holds just
\* before doSync sets the merged state is in the merged state in that
\* version or a newer one, never in an older one.
C39_ReviewSurvivesMerge ==
    [][MergeStep
         => \A k \in 1..Len(cards) :
              \E j \in 1..Len(cards') :
                /\ cards'[j].id = cards[k].id
                /\ cards'[j].updatedAt >= cards[k].updatedAt]_vars

\* C40: the merged state of a login sync holds every deck whose row
\* fetchAllFromRemote returned, so a deck deleted locally whose remote row
\* was not deleted is back after the next login sync, with those of its
\* cards whose rows were not deleted either.
C40_RemoteDeckComesBack ==
    [][MergeStep
         => /\ IdsOf(sync.remoteData.decks) \subseteq IdsOf(decks')
            /\ IdsOf(sync.remoteData.cards) \subseteq IdsOf(cards')
            /\ \A k \in 1..Len(sync.remoteData.decks) :
                 sync.remoteData.decks[k].id \notin IdsOf(sync.local.decks)
                 => \E j \in 1..Len(decks') : decks'[j] = sync.remoteData.decks[k]]_vars

\* Deck d1 was deleted on the device before the login and its remote
\* rows were not: the login sync has put the deck and a card of it back.
C40_Witness ==
    /\ sync.pc = "merged"
    /\ "d1" \notin IdsOf(sync.local.decks)
    /\ "d1" \in IdsOf(sync.remoteData.decks)
    /\ "d1" \in IdsOf(decks)
    /\ \E k \in 1..Len(cards) : cards[k].deckId = "d1"
    /\ "d2" \in IdsOf(sync.local.decks)
====
